----------------------------- MODULE FlashProofs -----------------------------
(***************************************************************************)
(* Proofs about Flash, for every geometry, set of pages and payloads: no   *)
(* call and no power failure touches the bootloader, pages that were       *)
(* written stay, and the calls store pages as PageStore says.              *)
(***************************************************************************)
EXTENDS Flash, TLAPS

Sweeping == {"erase_app", "erase_app_wait"}
Loaded == {"erase", "erase_wait", "write"}
Updating == {"read"} \cup Loaded

(* What a call is working on.                                              *)
Arguments ==
    /\ pc \in Updating =>
          /\ page \in PageIds
          /\ i \in 0 .. RowPages
          /\ data = Firmware[page] \/ page \in spoiled
    /\ pc = "erase_wait" => configured
    /\ pc \in {"erase", "erase_wait"} => i = 0
    /\ pc \in Sweeping => AppRow + i <= NumRows
    /\ pc = "erase_app_wait" => configured /\ AppRow + i < NumRows

(* Only a configured driver commands the controller, and which command is  *)
(* in progress follows from where flash.c is.                              *)
Commands ==
    /\ cmd.op # "none" => configured
    /\ cmd.op = "erase" =>
          \/ pc = "erase_app_wait" /\ cmd.page = (AppRow + i) * RowPages
          \/ pc = "erase_wait" /\ cmd.page = page * RowPages
    /\ cmd.op = "program" =>
          /\ cmd.page >= AppRow * RowPages
          /\ \/ pc = "idle"
             \/ pc \in {"read", "erase_app"} /\ i = 0
             \/ /\ pc = "write" /\ i > 0
                /\ cmd.page = Root + (i - 1)
                /\ cmd.data = buffers[i - 1]

(* The rows that erase_application has passed are erased.                  *)
Sweep ==
    /\ pc \in Sweeping =>
          /\ ~erased /\ held = {}
          /\ configured => \A row \in AppRow .. AppRow + i - 1 :
                              \A p \in RowOf(row) : flash[p] = Bits
    /\ pc = "erase_app_wait" /\ cmd.op = "none" =>
          \A p \in RowOf(AppRow + i) : flash[p] = Bits

(* Since the erase no bit has been cleared that a page still needs.        *)
NoBitLost ==
    erased => \A q \in PageIds \ spoiled :
        /\ Firmware[q] \subseteq flash[Place(q)]
        /\ cmd.op = "program" /\ cmd.page = Place(q) => Firmware[q] \subseteq cmd.data

(* The cache holds the row, and later the row with the new page.           *)
Cache ==
    configured =>
        /\ pc = "read" => \A k \in 0 .. i - 1 : buffers[k] = flash[Root + k]
        /\ pc \in Loaded =>
              /\ buffers[page % RowPages] = data
              /\ \A k \in 0 .. RowPages - 1 :
                    k # page % RowPages => buffers[k] \subseteq flash[Root + k]
              /\ erased => \A q \in PageIds \ spoiled :
                    root_page(q) = root_page(page) =>
                        /\ Firmware[q] \subseteq buffers[q % RowPages]
                        /\ q \in held => buffers[q % RowPages] = Firmware[q]

(* The pages that have been given to the controller are as in the cache,   *)
(* but for one, which it is still at.                                      *)
Written ==
    configured /\ pc = "write" /\ erased =>
        \A k \in 0 .. i - 1 :
            k # page % RowPages \/ page \notin spoiled =>
                \/ flash[Root + k] = buffers[k]
                \/ cmd.op = "program" /\ cmd.page = Root + k /\ cmd.data = buffers[k]

(* A page is there, or the controller is about to be done with it.         *)
Settled(q) ==
    \/ flash[Place(q)] = Firmware[q]
    \/ cmd.op = "program" /\ cmd.page = Place(q) /\ cmd.data = Firmware[q]

HeldSettled ==
    erased => \A q \in held \ spoiled :
        \/ configured /\ pc \in Loaded /\ root_page(q) = root_page(page)
        \/ Settled(q)

(* Where things are, and what they hold.                                   *)
Shape == TypeOK /\ Arguments /\ Commands

FlashInv ==
    /\ Shape
    /\ Sweep
    /\ NoBitLost
    /\ Cache
    /\ Written
    /\ HeldSettled

-----------------------------------------------------------------------------
(* Arithmetic of rows and pages.                                           *)
LEMMA Products ==
    \A a, b \in Nat :
        /\ a * RowPages \in Nat
        /\ (a + 1) * RowPages = a * RowPages + RowPages
        /\ a <= b => a * RowPages <= b * RowPages
        /\ a < b => a * RowPages + RowPages <= b * RowPages
  BY GeometryAssumption

(* A page lies in one row, at one position.                                *)
LEMMA RowsApart ==
    \A a, b \in Nat : \A k, h \in 0 .. RowPages - 1 :
        a * RowPages + k = b * RowPages + h => a = b /\ k = h
  <1> TAKE a, b \in Nat
  <1> TAKE k, h \in 0 .. RowPages - 1
  <1>1. CASE a < b
    BY <1>1, Products, GeometryAssumption
  <1>2. CASE b < a
    BY <1>2, Products, GeometryAssumption
  <1>3. CASE a = b
    BY <1>3, Products, GeometryAssumption
  <1> QED BY <1>1, <1>2, <1>3

LEMMA RowPagesExist ==
    \A row \in 0 .. NumRows - 1 : \A k \in 0 .. RowPages - 1 :
        /\ row * RowPages \in Page
        /\ row * RowPages + k \in Page
        /\ row * RowPages + k \in RowOf(row)
  <1> TAKE row \in 0 .. NumRows - 1
  <1> TAKE k \in 0 .. RowPages - 1
  <1>1. row \in Nat /\ NumRows \in Nat /\ row < NumRows
    BY GeometryAssumption
  <1>2. row * RowPages \in Nat /\ row * RowPages + RowPages <= NumRows * RowPages
    BY <1>1, Products
  <1>3. NumRows * RowPages \in Nat
    BY <1>1, Products
  <1> QED BY <1>2, <1>3, GeometryAssumption DEF Page, RowOf

LEMMA PageIdFacts ==
    \A q \in PageIds :
        /\ q \in AppRow .. NumRows - 1
        /\ root_page(q) \in AppRow .. NumRows - 1
        /\ q % RowPages \in 0 .. RowPages - 1
        /\ q = root_page(q) + (q % RowPages)
        /\ Place(q) \in Page
        /\ Place(q) = root_page(q) * RowPages + (q % RowPages)
  <1> TAKE q \in PageIds
  <1>1. /\ q \in AppRow .. NumRows - 1
        /\ root_page(q) \in AppRow .. NumRows - 1
        /\ q % RowPages \in 0 .. RowPages - 1
    BY PageIdsAssumption
  <1>2. q = root_page(q) + (q % RowPages)
    BY <1>1, GeometryAssumption DEF root_page
  <1>3. Place(q) \in Page
    BY <1>1, RowPagesExist, GeometryAssumption DEF Place
  <1> QED BY <1>1, <1>2, <1>3 DEF Place

(* A row that is some page's root row is its own root row.                 *)
LEMMA RootIsRoot ==
    \A q, p \in PageIds : root_page(q) = p => root_page(p) = p
  <1> SUFFICES ASSUME NEW q \in PageIds, NEW p \in PageIds, root_page(q) = p
               PROVE  root_page(p) = p
    OBVIOUS
  <1>1. q \in Nat /\ RowPages \in Nat \ {0} /\ p = q - (q % RowPages) /\ p \in Nat
    <2>1. q \in AppRow .. NumRows - 1 /\ p \in AppRow .. NumRows - 1
      BY PageIdFacts
    <2> QED BY <2>1, GeometryAssumption DEF root_page
  <1>2. q = (q \div RowPages) * RowPages + (q % RowPages) /\ q \div RowPages \in Nat
    BY <1>1
  <1>3. p = (q \div RowPages) * RowPages + 0
    BY <1>1, <1>2, Products
  <1>4. p = (p \div RowPages) * RowPages + (p % RowPages) /\ p \div RowPages \in Nat
    BY <1>1
  <1>5. p % RowPages \in 0 .. RowPages - 1 /\ 0 \in 0 .. RowPages - 1
    BY <1>1
  <1>6. p % RowPages = 0
    BY <1>2, <1>3, <1>4, <1>5, RowsApart
  <1> QED BY <1>1, <1>6 DEF root_page

LEMMA LoopCounter ==
    /\ 0 .. RowPages \subseteq 0 .. (IF RowPages > NumRows THEN RowPages ELSE NumRows)
    /\ 0 .. NumRows \subseteq 0 .. (IF RowPages > NumRows THEN RowPages ELSE NumRows)
    /\ 0 \in 0 .. RowPages /\ 0 \in 0 .. NumRows
    /\ TypeOK => i \in Nat
  BY GeometryAssumption DEF TypeOK

LEMMA NoCommandType ==
    NoCommand \in [op : {"none", "erase", "program"}, page : Page, data : Content]
  <1>1. 0 \in Page
    <2>1. 0 \in 0 .. NumRows - 1 /\ 0 \in 0 .. RowPages - 1 /\ 0 * RowPages = 0
      BY GeometryAssumption
    <2> QED BY <2>1, RowPagesExist
  <1> QED BY <1>1 DEF NoCommand, Content

-----------------------------------------------------------------------------
LEMMA ShapeInit == Init => Shape
  <1> SUFFICES ASSUME Init PROVE Shape
    OBVIOUS
  <1>1. TypeOK
    <2>1. flash \in [Page -> Content] /\ cmd = NoCommand /\ data \in Content
      BY InitialFlashAssumption DEF Init, Content
    <2>2. i \in 0 .. (IF RowPages > NumRows THEN RowPages ELSE NumRows)
      BY GeometryAssumption DEF Init
    <2>3. buffers \in [0 .. RowPages - 1 -> Content]
      BY DEF Init, ZeroCache, Content
    <2> QED BY <2>1, <2>2, <2>3, NoCommandType DEF Init, TypeOK
  <1>2. Arguments /\ Commands
    BY DEF Init, Arguments, Commands, NoCommand, Updating, Loaded, Sweeping
  <1> QED BY <1>1, <1>2 DEF Shape

LEMMA FlashTypeAfterFinish ==
    ASSUME TypeOK, Finish
    PROVE  flash' \in [Page -> Content]
  <1>1. CASE cmd.op = "erase"
    BY <1>1 DEF TypeOK, Finish, Erased, Content
  <1>2. CASE cmd.op # "erase"
    BY <1>2 DEF TypeOK, Finish, Programmed, Content
  <1> QED BY <1>1, <1>2

LEMMA FlashTypeAfterLoss ==
    ASSUME TypeOK, flash' \in Torn
    PROVE  flash' \in [Page -> Content]
  <1>1. CASE cmd.op = "erase"
    <2> PICK extra \in [0 .. RowPages - 1 -> Content] :
            flash' = [p \in Page |-> IF p \in CommandRow
                                     THEN flash[p] \cup extra[p - cmd.page] ELSE flash[p]]
      BY <1>1 DEF Torn
    <2>1. ASSUME NEW p \in CommandRow PROVE p - cmd.page \in 0 .. RowPages - 1
      <3>1. cmd.page \in Nat
        BY GeometryAssumption, Products DEF TypeOK, Page
      <3> QED BY <3>1, GeometryAssumption DEF CommandRow
    <2>2. ASSUME NEW p \in CommandRow PROVE extra[p - cmd.page] \in Content
      BY <2>1
    <2> QED BY <2>2 DEF TypeOK, Content
  <1>2. CASE cmd.op = "program"
    <2> PICK kept \in SUBSET flash[cmd.page] :
            flash' = [flash EXCEPT ![cmd.page] = (@ \cap cmd.data) \cup kept]
      BY <1>2 DEF Torn
    <2> QED BY DEF TypeOK, Content
  <1>3. CASE cmd.op \notin {"erase", "program"}
    BY <1>3 DEF Torn, TypeOK
  <1> QED BY <1>1, <1>2, <1>3

(* With a configured driver the address checks let every page through that *)
(* flash.c asks for, and without one none.                                 *)
LEMMA AddressChecks ==
    ASSUME TypeOK
    PROVE  /\ \A row \in AppRow .. NumRows - 1 :
                  MayErase(row * RowPages) <=> configured
           /\ \A q \in PageIds : \A k \in 0 .. RowPages - 1 :
                  MayTransfer(root_page(q) * RowPages + k) <=> configured
  <1>1. ASSUME NEW row \in AppRow .. NumRows - 1
        PROVE  MayErase(row * RowPages) <=> configured
    <2>1. /\ 1 \in Nat /\ row \in Nat /\ NumRows \in Nat /\ 1 <= row /\ row <= NumRows
      BY GeometryAssumption
    <2>2. /\ row * RowPages \in Nat /\ NumRows * RowPages \in Nat
          /\ row * RowPages <= NumRows * RowPages /\ 1 * RowPages <= row * RowPages
      BY <2>1, Products
    <2> QED BY <2>2, GeometryAssumption DEF TypeOK, MayErase, Limit
  <1>2. ASSUME NEW q \in PageIds, NEW k \in 0 .. RowPages - 1
        PROVE  MayTransfer(root_page(q) * RowPages + k) <=> configured
    <2>1. /\ root_page(q) \in 0 .. NumRows - 1
      BY PageIdFacts, GeometryAssumption
    <2>2. root_page(q) * RowPages + k \in Page
      BY <2>1, RowPagesExist
    <2>3. NumRows * RowPages \in Nat
      BY Products, GeometryAssumption
    <2> QED BY <2>2, <2>3 DEF TypeOK, MayTransfer, Limit, Page
  <1> QED BY <1>1, <1>2

(* A page that a row's argument names is one the controller can be given.  *)
LEMMA CommandTypes ==
    /\ \A row \in AppRow .. NumRows - 1 :
          [op |-> "erase", page |-> row * RowPages, data |-> {}]
             \in [op : {"none", "erase", "program"}, page : Page, data : Content]
    /\ \A q \in PageIds : \A k \in 0 .. RowPages - 1 : \A d \in Content :
          /\ [op |-> "program", page |-> root_page(q) * RowPages + k, data |-> d]
                \in [op : {"none", "erase", "program"}, page : Page, data : Content]
          /\ root_page(q) * RowPages + k \in Page
          /\ root_page(q) * RowPages + k >= AppRow * RowPages
  <1>1. ASSUME NEW row \in AppRow .. NumRows - 1 PROVE row * RowPages \in Page
    <2>1. row \in 0 .. NumRows - 1 /\ 0 \in 0 .. RowPages - 1
      BY GeometryAssumption
    <2> QED BY <2>1, RowPagesExist
  <1>2. ASSUME NEW q \in PageIds, NEW k \in 0 .. RowPages - 1
        PROVE  /\ root_page(q) * RowPages + k \in Page
               /\ root_page(q) * RowPages + k >= AppRow * RowPages
    <2>1. /\ root_page(q) \in 0 .. NumRows - 1 /\ root_page(q) \in Nat
          /\ AppRow \in Nat /\ AppRow <= root_page(q)
      BY PageIdFacts, GeometryAssumption
    <2>2. root_page(q) * RowPages + k \in Page
      BY <2>1, RowPagesExist
    <2>3. /\ AppRow * RowPages <= root_page(q) * RowPages
          /\ AppRow * RowPages \in Nat /\ root_page(q) * RowPages \in Nat
      BY <2>1, Products
    <2> QED BY <2>2, <2>3
  <1> QED BY <1>1, <1>2 DEF Content

LEMMA ShapeConfigNvm == Shape /\ ConfigNvm => Shape'
  BY DEF Shape, ConfigNvm, device, args, history, TypeOK, Arguments, Commands,
         nvm_is_ready, Updating, Loaded, Sweeping

LEMMA ShapeEraseApp == Shape /\ EraseApp => Shape'
  <1> SUFFICES ASSUME Shape, EraseApp PROVE Shape'
    OBVIOUS
  <1> USE DEF device, args, history, nvm_is_ready
  <1>1. CASE EraseApplication
    <2>1. TypeOK'
      <3>1. i' \in 0 .. (IF RowPages > NumRows THEN RowPages ELSE NumRows)
        BY <1>1, LoopCounter DEF EraseApplication
      <3> QED BY <1>1, <3>1 DEF Shape, TypeOK, EraseApplication
    <2>2. Arguments' /\ Commands'
      BY <1>1, GeometryAssumption
         DEF Shape, TypeOK, Arguments, Commands, EraseApplication, Updating, Loaded, Sweeping, Root
    <2> QED BY <2>1, <2>2 DEF Shape
  <1>2. CASE EraseAppRow
    <2> DEFINE row == AppRow + i
    <2>1. /\ pc = "erase_app" /\ row \in AppRow .. NumRows - 1
          /\ MayErase(row * RowPages) <=> configured
      <3>1. pc = "erase_app" /\ row < NumRows
        BY <1>2 DEF EraseAppRow
      <3>2. row \in AppRow .. NumRows - 1
        BY <3>1, LoopCounter, GeometryAssumption DEF Shape
      <3> QED BY <3>1, <3>2, AddressChecks DEF Shape
    <2>2. CASE configured
      <3>1. /\ cmd' = [op |-> "erase", page |-> row * RowPages, data |-> {}]
            /\ pc' = "erase_app_wait" /\ i' = i
            /\ UNCHANGED <<flash, configured, args, buffers, history>>
        BY <1>2, <2>1, <2>2 DEF EraseAppRow, EraseRow
      <3>2. TypeOK'
        BY <2>1, <3>1, CommandTypes DEF Shape, TypeOK
      <3>3. AppRow + i < NumRows
        BY <2>1, GeometryAssumption
      <3>4. Arguments'
        BY <2>1, <2>2, <3>1, <3>3 DEF Shape, Arguments, Updating, Loaded, Sweeping
      <3>5. Commands'
        BY <2>1, <2>2, <3>1 DEF Commands
      <3> QED BY <3>2, <3>4, <3>5 DEF Shape
    <2>3. CASE ~configured
      <3>1. /\ i' = i + 1
            /\ UNCHANGED <<flash, configured, cmd, pc, args, buffers, history>>
        BY <1>2, <2>1, <2>3 DEF EraseAppRow
      <3>2. TypeOK'
        BY <2>1, <3>1, GeometryAssumption DEF Shape, TypeOK
      <3>3. AppRow + i' <= NumRows
        BY <2>1, <3>1, GeometryAssumption DEF Shape, TypeOK
      <3>4. Arguments'
        BY <2>1, <3>1, <3>3 DEF Arguments, Updating, Loaded, Sweeping
      <3>5. Commands'
        BY <2>3, <3>1 DEF Shape, Commands
      <3> QED BY <3>2, <3>4, <3>5 DEF Shape
    <2> QED BY <2>2, <2>3
  <1>3. CASE EraseAppWait
    <2>1. TypeOK'
      BY <1>3, GeometryAssumption DEF Shape, TypeOK, Arguments, EraseAppWait
    <2>2. Arguments' /\ Commands'
      BY <1>3, GeometryAssumption
         DEF Shape, TypeOK, Arguments, Commands, EraseAppWait, Updating, Loaded, Sweeping
    <2> QED BY <2>1, <2>2 DEF Shape
  <1>4. CASE EraseAppDone
    <2>1. buffers' \in [0 .. RowPages - 1 -> Content] /\ data' \in Content
      BY <1>4 DEF EraseAppDone, Return, ZeroCache, Content
    <2>2. TypeOK'
      BY <1>4, <2>1, GeometryAssumption DEF Shape, TypeOK, EraseAppDone, Return
    <2>3. Arguments' /\ Commands'
      BY <1>4 DEF Shape, Arguments, Commands, EraseAppDone, Return, Updating, Loaded, Sweeping
    <2> QED BY <2>2, <2>3 DEF Shape
  <1> QED BY <1>1, <1>2, <1>3, <1>4 DEF EraseApp

LEMMA ShapeUpdate == Shape /\ Update => Shape'
  <1> SUFFICES ASSUME Shape, Update PROVE Shape'
    OBVIOUS
  <1> USE DEF device, args, history, nvm_is_ready
  <1>1. CASE UpdatePage
    <2>1. buffers' \in [0 .. RowPages - 1 -> Content] /\ data' \in Content
      BY <1>1, FirmwareAssumption DEF UpdatePage, ZeroCache, Content
    <2>2. TypeOK'
      BY <1>1, <2>1, GeometryAssumption DEF Shape, TypeOK, UpdatePage
    <2>3. Arguments' /\ Commands'
      BY <1>1, GeometryAssumption
         DEF Shape, TypeOK, Arguments, Commands, UpdatePage, Updating, Loaded, Sweeping
    <2> QED BY <2>2, <2>3 DEF Shape
  <1>2. ASSUME pc \in Updating
        PROVE  /\ page \in PageIds /\ i \in 0 .. RowPages
               /\ \A k \in 0 .. RowPages - 1 :
                     /\ MayTransfer(Root + k) <=> configured
                     /\ Root + k \in Page
    BY <1>2, AddressChecks, CommandTypes DEF Shape, Arguments, Root, TypeOK
  <1>3. CASE ReadPage
    <2>0. pc \in Updating /\ i < RowPages
      BY <1>3 DEF ReadPage, Updating
    <2>1. /\ pc = "read" /\ page \in PageIds /\ i \in 0 .. RowPages - 1
          /\ MayTransfer(Root + i) <=> configured
          /\ Root + i \in Page
      <3>1. page \in PageIds /\ i \in 0 .. RowPages - 1
        BY <1>2, <2>0, GeometryAssumption
      <3>2. pc = "read"
        BY <1>3 DEF ReadPage
      <3> QED BY <1>2, <2>0, <3>1, <3>2
    <2>2. buffers' \in [0 .. RowPages - 1 -> Content]
      BY <1>3, <2>1 DEF ReadPage, Shape, TypeOK
    <2>3. i' \in 0 .. RowPages
      BY <1>3, <2>1, GeometryAssumption DEF ReadPage
    <2>4. TypeOK'
      BY <1>3, <2>2, <2>3, GeometryAssumption DEF ReadPage, Shape, TypeOK
    <2>5. Arguments' /\ Commands'
      BY <1>3, <2>1, <2>3, GeometryAssumption
         DEF Shape, TypeOK, Arguments, Commands, ReadPage, Updating, Loaded, Sweeping
    <2> QED BY <2>4, <2>5 DEF Shape
  <1>4. CASE LoadPage
    <2>0. /\ buffers' \in [0 .. RowPages - 1 -> Content]
          /\ i' \in 0 .. (IF RowPages > NumRows THEN RowPages ELSE NumRows)
      BY <1>4, LoopCounter DEF LoadPage, Shape, TypeOK
    <2>1. TypeOK'
      BY <1>4, <2>0 DEF LoadPage, Shape, TypeOK
    <2>2. Arguments' /\ Commands'
      BY <1>4, GeometryAssumption
         DEF Shape, TypeOK, Arguments, Commands, LoadPage, Updating, Loaded, Sweeping
    <2> QED BY <2>1, <2>2 DEF Shape
  <1>5. CASE EraseUpdatedRow
    <2>1. /\ pc = "erase" /\ i = 0 /\ page \in PageIds
          /\ page \in AppRow .. NumRows - 1
          /\ MayErase(page * RowPages) <=> configured
      BY <1>2, <1>5, AddressChecks, PageIdFacts
         DEF EraseUpdatedRow, Updating, Loaded, Shape, Arguments
    <2>2. CASE configured
      <3>1. /\ cmd' = [op |-> "erase", page |-> page * RowPages, data |-> {}]
            /\ pc' = "erase_wait"
            /\ UNCHANGED <<flash, configured, i, args, buffers, history>>
        BY <1>5, <2>1, <2>2 DEF EraseUpdatedRow, EraseRow
      <3>2. TypeOK'
        BY <2>1, <3>1, CommandTypes DEF Shape, TypeOK
      <3>3. Arguments' /\ Commands'
        BY <2>1, <2>2, <3>1
           DEF Shape, TypeOK, Arguments, Commands, Updating, Loaded, Sweeping
      <3> QED BY <3>2, <3>3 DEF Shape
    <2>3. CASE ~configured
      BY <1>5, <2>1, <2>3
         DEF Shape, TypeOK, Arguments, Commands, EraseUpdatedRow, Updating, Loaded, Sweeping
    <2> QED BY <2>2, <2>3
  <1>6. CASE EraseWait
    BY <1>6 DEF Shape, TypeOK, Arguments, Commands, EraseWait, Updating, Loaded, Sweeping
  <1>7. CASE WriteBack
    <2>1. /\ pc = "write" /\ page \in PageIds /\ i \in 0 .. RowPages - 1 /\ i \in Nat
          /\ MayTransfer(Root + i) <=> configured
          /\ i' = i + 1 /\ i' - 1 = i
          /\ UNCHANGED <<flash, configured, pc, args, buffers, history>>
      BY <1>2, <1>7, GeometryAssumption DEF WriteBack, Updating, Loaded
    <2>2. i' \in 0 .. RowPages /\ i' > 0
      BY <2>1, GeometryAssumption
    <2>3. CASE configured
      <3>1. cmd' = [op |-> "program", page |-> Root + i, data |-> buffers[i]]
        BY <1>7, <2>1, <2>3 DEF WriteBack, WritePage
      <3>2. buffers[i] \in Content
        BY <2>1 DEF Shape, TypeOK
      <3>3. TypeOK'
        BY <2>1, <2>2, <3>1, <3>2, CommandTypes, GeometryAssumption DEF Shape, TypeOK, Root
      <3>4. cmd'.page >= AppRow * RowPages /\ cmd'.page = Root' + (i' - 1)
        BY <2>1, <3>1, <3>2, CommandTypes DEF Root
      <3>5. Arguments'
        BY <2>1, <2>2 DEF Shape, Arguments, Updating, Loaded, Sweeping
      <3>6. Commands'
        BY <2>1, <2>2, <2>3, <3>1, <3>4 DEF Commands
      <3> QED BY <3>3, <3>5, <3>6 DEF Shape
    <2>4. CASE ~configured
      <3>1. UNCHANGED cmd
        BY <1>7, <2>1, <2>4 DEF WriteBack
      <3>2. TypeOK'
        BY <2>1, <2>2, <3>1, GeometryAssumption DEF Shape, TypeOK
      <3>3. Arguments' /\ Commands'
        BY <2>1, <2>2, <2>4, <3>1
           DEF Shape, TypeOK, Arguments, Commands, Updating, Loaded, Sweeping
      <3> QED BY <3>2, <3>3 DEF Shape
    <2> QED BY <2>3, <2>4
  <1>8. CASE UpdateDone
    <2>1. buffers' \in [0 .. RowPages - 1 -> Content] /\ data' \in Content
      BY <1>8 DEF UpdateDone, Return, ZeroCache, Content
    <2>2. held' \subseteq PageIds
      BY <1>2, <1>8 DEF UpdateDone, Updating, Loaded, Shape, TypeOK
    <2>3. TypeOK'
      BY <1>8, <2>1, <2>2, GeometryAssumption DEF Shape, TypeOK, UpdateDone, Return
    <2>4. Arguments' /\ Commands'
      BY <1>8 DEF Shape, Arguments, Commands, UpdateDone, Return, Updating, Loaded, Sweeping
    <2> QED BY <2>3, <2>4 DEF Shape
  <1> QED BY <1>1, <1>3, <1>4, <1>5, <1>6, <1>7, <1>8 DEF Update

LEMMA ShapeDevice == Shape /\ (Finish \/ PowerLoss) => Shape'
  <1> SUFFICES ASSUME Shape, Finish \/ PowerLoss PROVE Shape'
    OBVIOUS
  <1> USE DEF device, args, history, nvm_is_ready
  <1>1. CASE Finish
    <2>1. TypeOK'
      BY <1>1, FlashTypeAfterFinish, NoCommandType DEF Finish, Shape, TypeOK
    <2>2. Arguments' /\ Commands'
      BY <1>1 DEF Finish, NoCommand, Shape, Arguments, Commands
    <2> QED BY <2>1, <2>2 DEF Shape
  <1>2. CASE PowerLoss
    <2>1. flash' \in [Page -> Content]
      BY <1>2, FlashTypeAfterLoss DEF PowerLoss, Shape
    <2>2. buffers' \in [0 .. RowPages - 1 -> Content] /\ data' \in Content
      BY <1>2 DEF PowerLoss, Return, ZeroCache, Content
    <2>3. TypeOK'
      <3>1. held' \subseteq PageIds
        BY <1>2 DEF PowerLoss, Shape, TypeOK
      <3>2. i' \in 0 .. (IF RowPages > NumRows THEN RowPages ELSE NumRows)
        BY <1>2, GeometryAssumption DEF PowerLoss, Return
      <3>3. cmd' \in [op : {"none", "erase", "program"}, page : Page, data : Content]
        BY <1>2, NoCommandType DEF PowerLoss
      <3> QED BY <1>2, <2>1, <2>2, <3>1, <3>2, <3>3 DEF PowerLoss, Return, Shape, TypeOK
    <2>4. Arguments' /\ Commands'
      BY <1>2 DEF PowerLoss, Return, NoCommand, Arguments, Commands,
                  Updating, Loaded, Sweeping
    <2> QED BY <2>3, <2>4 DEF Shape
  <1> QED BY <1>1, <1>2

LEMMA ShapeStep == Shape /\ [Next]_vars => Shape'
  <1>1. Shape /\ UNCHANGED vars => Shape'
    BY DEF vars, device, args, history, Shape, TypeOK, Arguments, Commands, Root
  <1> QED BY <1>1, ShapeConfigNvm, ShapeEraseApp, ShapeUpdate, ShapeDevice DEF Next

(* Whatever calls arrive and whenever power fails, flash, driver and       *)
(* locals keep their types.                                                *)
THEOREM FlashTypeCorrect == Spec => []TypeOK
  <1>1. Shape => TypeOK
    BY DEF Shape
  <1> QED BY <1>1, ShapeInit, ShapeStep, PTL DEF Spec

-----------------------------------------------------------------------------
(* Where the controller may write: one row that a call erases, or one page.*)
LEMMA CommandPlace ==
    ASSUME Shape, cmd.op # "none"
    PROVE  /\ configured
           /\ cmd.page \in Page
           /\ cmd.page >= AppRow * RowPages
           /\ cmd.op = "erase" =>
                 \E row \in AppRow .. NumRows - 1 :
                     /\ cmd.page = row * RowPages /\ CommandRow = RowOf(row)
                     /\ \/ pc = "erase_app_wait" /\ row = AppRow + i
                        \/ pc = "erase_wait" /\ row = page
  <1>1. configured /\ cmd.page \in Page /\ cmd.op \in {"none", "erase", "program"}
    BY DEF Shape, TypeOK, Commands
  <1>2. CASE cmd.op = "erase"
    <2>1. \E row \in AppRow .. NumRows - 1 :
             /\ cmd.page = row * RowPages
             /\ \/ pc = "erase_app_wait" /\ row = AppRow + i
                \/ pc = "erase_wait" /\ row = page
      <3>1. CASE pc = "erase_app_wait"
        <4>1. AppRow + i \in AppRow .. NumRows - 1
          BY <3>1, LoopCounter, GeometryAssumption DEF Shape, Arguments
        <4> QED BY <1>2, <3>1, <4>1 DEF Shape, Commands
      <3>2. CASE pc = "erase_wait"
        <4>1. page \in AppRow .. NumRows - 1
          BY <3>2, PageIdFacts DEF Shape, Arguments, Updating, Loaded
        <4> QED BY <1>2, <3>2, <4>1 DEF Shape, Commands
      <3> QED BY <1>2, <3>1, <3>2 DEF Shape, Commands
    <2> PICK row \in AppRow .. NumRows - 1 :
             /\ cmd.page = row * RowPages
             /\ \/ pc = "erase_app_wait" /\ row = AppRow + i
                \/ pc = "erase_wait" /\ row = page
      BY <2>1
    <2>2. CommandRow = RowOf(row)
      BY DEF CommandRow, RowOf
    <2>3. /\ row \in Nat /\ AppRow \in Nat /\ AppRow <= row
      BY GeometryAssumption
    <2>4. cmd.page >= AppRow * RowPages
      BY <2>3, Products
    <2> QED BY <1>1, <2>2, <2>4
  <1>3. CASE cmd.op = "program"
    BY <1>1, <1>3 DEF Shape, Commands
  <1> QED BY <1>1, <1>2, <1>3

(* What one step may do to the flash.                                      *)
LEMMA FlashChange ==
    ASSUME Shape, [Next]_vars
    PROVE  /\ cmd.op = "none" => flash' = flash
           /\ cmd.op = "program" =>
                 /\ \A p \in Page : p # cmd.page => flash'[p] = flash[p]
                 /\ flash[cmd.page] \cap cmd.data \subseteq flash'[cmd.page]
           /\ cmd.op = "erase" => \A p \in Page : p \notin CommandRow => flash'[p] = flash[p]
           /\ cmd.op = "erase" => \A p \in Page : flash[p] \subseteq flash'[p]
  <1> USE DEF device, args, history
  <1>0. CASE flash' = flash
    BY <1>0
  <1>1. CASE Finish
    <2>1. cmd.op # "none"
      BY <1>1 DEF Finish, nvm_is_ready
    <2>2. CASE cmd.op = "erase"
      <3>1. \A p \in Page : flash'[p] = IF p \in CommandRow THEN Bits ELSE flash[p]
        BY <1>1, <2>2 DEF Finish, Erased
      <3>2. \A p \in Page : flash[p] \subseteq Bits
        BY DEF Shape, TypeOK, Content
      <3> QED BY <2>2, <3>1, <3>2
    <2>3. CASE cmd.op # "erase"
      <3>1. flash' = [flash EXCEPT ![cmd.page] = @ \cap cmd.data]
        BY <1>1, <2>3 DEF Finish, Programmed
      <3> QED BY <2>1, <2>3, <3>1 DEF Shape, TypeOK
    <2> QED BY <2>2, <2>3
  <1>2. CASE PowerLoss
    <2>1. CASE cmd.op = "erase"
      <3> PICK extra \in [0 .. RowPages - 1 -> Content] :
            flash' = [p \in Page |-> IF p \in CommandRow
                                     THEN flash[p] \cup extra[p - cmd.page] ELSE flash[p]]
        BY <1>2, <2>1 DEF PowerLoss, Torn
      <3> QED BY <2>1
    <2>2. CASE cmd.op = "program"
      <3> PICK kept \in SUBSET flash[cmd.page] :
            flash' = [flash EXCEPT ![cmd.page] = (@ \cap cmd.data) \cup kept]
        BY <1>2, <2>2 DEF PowerLoss, Torn
      <3> QED BY <2>2 DEF Shape, TypeOK
    <2>3. CASE cmd.op \notin {"erase", "program"}
      BY <1>2, <2>3 DEF PowerLoss, Torn
    <2> QED BY <2>1, <2>2, <2>3
  <1>3. CASE ~(Finish \/ PowerLoss)
    BY <1>0, <1>3
       DEF Next, vars, ConfigNvm, EraseApp, EraseApplication, EraseAppRow, EraseAppWait,
           EraseAppDone, Update, UpdatePage, ReadPage, LoadPage, EraseUpdatedRow,
           EraseWait, WriteBack, UpdateDone
  <1> QED BY <1>1, <1>2, <1>3

(* Without config_nvm, which no program of the repository calls, no call   *)
(* changes the flash (nvm.c:446-463, nvm.c:634).                           *)
THEOREM UnconfiguredChangesNothing == Spec => UnconfiguredIsInert
  <1>1. Shape /\ [Next]_vars => [~configured => flash' = flash]_vars
    <2> SUFFICES ASSUME Shape, [Next]_vars, ~configured PROVE flash' = flash
      OBVIOUS
    <2>1. cmd.op = "none"
      BY CommandPlace
    <2> QED BY <2>1, FlashChange
  <1> QED BY <1>1, ShapeInit, ShapeStep, PTL DEF Spec, UnconfiguredIsInert

LEMMA BootRowsStep ==
    ASSUME Shape, [Next]_vars, NEW p \in BootRows PROVE flash'[p] = flash[p]
  <1>1. p \in Page /\ p < AppRow * RowPages
    <2> PICK row \in 0 .. AppRow - 1 : p \in row * RowPages .. row * RowPages + RowPages - 1
      BY DEF BootRows, RowOf
    <2>1. /\ row \in Nat /\ AppRow \in Nat /\ NumRows \in Nat
          /\ row < AppRow /\ AppRow <= NumRows
      BY GeometryAssumption
    <2>2. /\ row * RowPages \in Nat /\ AppRow * RowPages \in Nat /\ NumRows * RowPages \in Nat
          /\ row * RowPages + RowPages <= AppRow * RowPages
          /\ AppRow * RowPages <= NumRows * RowPages
      BY <2>1, Products
    <2> QED BY <2>2, GeometryAssumption DEF Page
  <1>2. p \in Page /\ p < AppRow * RowPages /\ p \in Nat
    BY <1>1, Products, GeometryAssumption DEF Page
  <1>3. AppRow * RowPages \in Nat
    BY Products, GeometryAssumption
  <1>4. CASE cmd.op = "none"
    BY <1>4, FlashChange
  <1>5. CASE cmd.op # "none"
    <2>1. cmd.page \in Nat /\ cmd.page >= AppRow * RowPages
      BY <1>5, CommandPlace, Products, GeometryAssumption DEF Page
    <2>2. p # cmd.page /\ p \notin CommandRow
      BY <1>2, <1>3, <2>1, GeometryAssumption DEF CommandRow
    <2>3. cmd.op \in {"none", "erase", "program"}
      BY DEF Shape, TypeOK
    <2> QED BY <1>2, <1>5, <2>2, <2>3, FlashChange
  <1> QED BY <1>4, <1>5

(* No call, whatever its arguments and however it is cut short, changes a  *)
(* page of the bootloader (update.c:50, flash.c:91, flash.c:118).          *)
THEOREM BootloaderUntouched == Spec => BootRowsUntouched
  <1>1. Shape /\ [Next]_vars => [\A p \in BootRows : flash'[p] = flash[p]]_vars
    BY BootRowsStep
  <1> QED BY <1>1, ShapeInit, ShapeStep, PTL DEF Spec, BootRowsUntouched

-----------------------------------------------------------------------------
(* The history of an update: what each step does to the pages that an      *)
(* update has written since the last erase.                                *)
LEMMA SamePlace ==
    \A q \in PageIds : \A p \in PageIds : \A k \in 0 .. RowPages - 1 :
        Place(q) = root_page(p) * RowPages + k =>
            root_page(q) = root_page(p) /\ k = q % RowPages
  <1> SUFFICES ASSUME NEW q \in PageIds, NEW p \in PageIds, NEW k \in 0 .. RowPages - 1,
                      Place(q) = root_page(p) * RowPages + k
               PROVE  root_page(q) = root_page(p) /\ k = q % RowPages
    OBVIOUS
  <1>1. root_page(q) \in Nat /\ root_page(p) \in Nat /\ q % RowPages \in 0 .. RowPages - 1
    BY PageIdFacts, GeometryAssumption
  <1> QED BY <1>1, RowsApart, PageIdFacts

(* A page lies in a row only if the row is its root row.                   *)
LEMMA RowOfPlace ==
    \A q \in PageIds : \A row \in AppRow .. NumRows - 1 :
        Place(q) \in RowOf(row) <=> root_page(q) = row
  <1> TAKE q \in PageIds
  <1> TAKE row \in AppRow .. NumRows - 1
  <1>1. /\ root_page(q) \in Nat /\ row \in Nat /\ q % RowPages \in 0 .. RowPages - 1
        /\ Place(q) = root_page(q) * RowPages + (q % RowPages)
        /\ row * RowPages \in Nat /\ root_page(q) * RowPages \in Nat
    BY PageIdFacts, Products, GeometryAssumption
  <1>2. ASSUME Place(q) \in RowOf(row) PROVE root_page(q) = row
    <2> DEFINE k == Place(q) - row * RowPages
    <2>1. k \in 0 .. RowPages - 1 /\ Place(q) = row * RowPages + k
      BY <1>1, <1>2, GeometryAssumption DEF RowOf
    <2> QED BY <1>1, <2>1, RowsApart
  <1>3. ASSUME root_page(q) = row PROVE Place(q) \in RowOf(row)
    BY <1>1, <1>3, GeometryAssumption DEF RowOf
  <1> QED BY <1>2, <1>3

LEMMA FlashInvInit == Init => FlashInv
  <1> SUFFICES ASSUME Init PROVE FlashInv
    OBVIOUS
  <1>1. Sweep /\ NoBitLost /\ Cache /\ Written /\ HeldSettled
    BY DEF Init, Sweep, Sweeping, NoBitLost, Cache, Written, HeldSettled
  <1> QED BY <1>1, ShapeInit DEF FlashInv

LEMMA SweepStep ==
    ASSUME FlashInv, [Next]_vars
    PROVE  Sweep'
  <1> USE DEF device, args, history, nvm_is_ready, FlashInv
  <1>1. CASE EraseApplication
    BY <1>1, GeometryAssumption DEF EraseApplication, Sweep, Sweeping
  <1>2. CASE EraseAppRow
    <2>1. CASE configured
      <3>1. cmd'.op = "erase" /\ pc = "erase_app" /\ pc' = "erase_app_wait"
            /\ UNCHANGED <<flash, configured, i, erased, held>>
        <4>1. AppRow + i \in AppRow .. NumRows - 1
          BY <1>2, LoopCounter, GeometryAssumption DEF EraseAppRow, Shape
        <4>2. MayErase((AppRow + i) * RowPages)
          BY <2>1, <4>1, AddressChecks DEF Shape
        <4> QED BY <1>2, <4>2 DEF EraseAppRow, EraseRow
      <3> QED BY <3>1 DEF Sweep, Sweeping
    <2>2. CASE ~configured
      <3>1. pc = "erase_app" /\ ~configured' /\ cmd.op = "none"
            /\ UNCHANGED <<erased, held>>
        BY <1>2, <2>2 DEF EraseAppRow, Shape, TypeOK, Commands
      <3>2. pc' = "erase_app"
        <4>1. AppRow + i \in AppRow .. NumRows - 1
          BY <1>2, LoopCounter, GeometryAssumption DEF EraseAppRow, Shape
        <4>2. ~MayErase((AppRow + i) * RowPages)
          BY <2>2, <4>1, AddressChecks DEF Shape
        <4> QED BY <1>2, <3>1, <4>2 DEF EraseAppRow
      <3> QED BY <3>1, <3>2 DEF Sweep, Sweeping
    <2> QED BY <2>1, <2>2
  <1>3. CASE EraseAppWait
    <2>1. /\ pc = "erase_app_wait" /\ pc' = "erase_app" /\ cmd.op = "none" /\ i' = i + 1
          /\ UNCHANGED <<flash, configured, erased, held>>
      BY <1>3 DEF EraseAppWait
    <2>2. ~erased /\ held = {}
      BY <2>1 DEF Sweep, Sweeping
    <2>3. ASSUME configured, NEW row \in AppRow .. AppRow + i' - 1, NEW p \in RowOf(row)
          PROVE  flash[p] = Bits
      <3>1. row \in AppRow .. AppRow + i - 1 \/ row = AppRow + i
        BY <2>1, LoopCounter, GeometryAssumption DEF Shape
      <3> QED BY <2>1, <2>3, <3>1 DEF Sweep, Sweeping
    <2> QED BY <2>1, <2>2, <2>3 DEF Sweep
  <1>4. CASE Finish
    <2>1. UNCHANGED <<configured, pc, i, erased, held>> /\ cmd'.op = "none" /\ cmd.op # "none"
      BY <1>4 DEF Finish, NoCommand
    <2>2. CASE pc \in Sweeping /\ cmd.op = "erase"
      <3> PICK row \in AppRow .. NumRows - 1 :
              CommandRow = RowOf(row) /\ pc = "erase_app_wait" /\ row = AppRow + i
        BY <2>1, <2>2, CommandPlace DEF Sweeping
      <3>1. \A p \in Page : flash'[p] = IF p \in RowOf(AppRow + i) THEN Bits ELSE flash[p]
        BY <1>4, <2>2 DEF Finish, Erased
      <3>2. ASSUME NEW r \in AppRow .. NumRows - 1 PROVE RowOf(r) \subseteq Page
        <4>1. r \in 0 .. NumRows - 1 /\ r \in Nat /\ r * RowPages \in Nat
          BY Products, GeometryAssumption
        <4>2. ASSUME NEW p \in RowOf(r) PROVE p \in Page
          <5>1. p - r * RowPages \in 0 .. RowPages - 1 /\ p = r * RowPages + (p - r * RowPages)
            BY <4>1, <4>2, GeometryAssumption DEF RowOf
          <5> QED BY <4>1, <5>1, RowPagesExist
        <4> QED BY <4>2
      <3>3. \A p \in RowOf(AppRow + i) : flash'[p] = Bits
        BY <3>1, <3>2
      <3>4. ASSUME NEW r \in AppRow .. AppRow + i - 1, NEW p \in RowOf(r)
            PROVE  flash'[p] = Bits
        <4>1. r \in AppRow .. NumRows - 1
          BY LoopCounter, GeometryAssumption DEF Shape
        <4>2. flash[p] = Bits
          BY <2>1, <2>2, CommandPlace DEF Sweep
        <4> QED BY <3>1, <3>2, <4>1, <4>2
      <3> QED BY <2>1, <3>3, <3>4 DEF Sweep
    <2>3. CASE pc \in Sweeping /\ cmd.op = "program"
      <3>1. pc = "erase_app" /\ i = 0
        BY <2>3 DEF Shape, Commands, Sweeping
      <3> QED BY <2>1, <2>3, <3>1, GeometryAssumption DEF Sweep
    <2>4. CASE pc \notin Sweeping
      BY <2>1, <2>4 DEF Sweep, Sweeping
    <2>5. cmd.op \in {"none", "erase", "program"}
      BY DEF Shape, TypeOK
    <2> QED BY <2>1, <2>2, <2>3, <2>4, <2>5
  <1>5. CASE UNCHANGED vars
    BY <1>5 DEF vars, Sweep
  <1>6. CASE ConfigNvm \/ EraseAppDone \/ Update \/ PowerLoss
    <2>1. pc' \notin Sweeping
      BY <1>6
         DEF Sweeping, ConfigNvm, EraseAppDone, Update, PowerLoss, Return, UpdatePage, ReadPage,
             LoadPage, EraseUpdatedRow, EraseWait, WriteBack, UpdateDone
    <2> QED BY <2>1 DEF Sweep, Sweeping
  <1> QED BY <1>1, <1>2, <1>3, <1>4, <1>5, <1>6 DEF Next, EraseApp

LEMMA NoBitLostStep ==
    ASSUME FlashInv, [Next]_vars
    PROVE  NoBitLost'
  <1> SUFFICES ASSUME erased', NEW q \in PageIds \ spoiled'
               PROVE  /\ Firmware[q] \subseteq flash'[Place(q)]
                      /\ cmd'.op = "program" /\ cmd'.page = Place(q)
                            => Firmware[q] \subseteq cmd'.data
    BY DEF NoBitLost
  <1> USE DEF device, args, history, nvm_is_ready, FlashInv
  <1>1. ASSUME erased, q \notin spoiled
        PROVE  /\ Firmware[q] \subseteq flash[Place(q)]
               /\ cmd.op = "program" /\ cmd.page = Place(q) => Firmware[q] \subseteq cmd.data
    BY <1>1 DEF NoBitLost
  <1>2. Place(q) \in Page /\ Place(q) = root_page(q) * RowPages + (q % RowPages)
    BY PageIdFacts
  <1>3. CASE ConfigNvm \/ UpdatePage \/ ReadPage \/ LoadPage \/ EraseWait \/ UpdateDone
             \/ UNCHANGED vars
    <2>1. erased /\ q \notin spoiled /\ UNCHANGED <<flash, cmd>>
      BY <1>3 DEF ConfigNvm, UpdatePage, ReadPage, LoadPage, EraseWait, UpdateDone, vars
    <2> QED BY <1>1, <2>1
  <1>4. CASE EraseApplication \/ EraseAppRow \/ EraseAppWait
    <2>1. ~erased'
      BY <1>4 DEF EraseApplication, EraseAppRow, EraseAppWait, Sweep, Sweeping
    <2> QED BY <2>1
  <1>5. CASE EraseAppDone
    <2>1. /\ pc = "erase_app" /\ AppRow + i = NumRows /\ configured
          /\ UNCHANGED <<flash, cmd>>
      BY <1>5 DEF EraseAppDone
    <2>2. root_page(q) \in AppRow .. AppRow + i - 1 /\ root_page(q) \in AppRow .. NumRows - 1
      <3>1. AppRow + i - 1 = NumRows - 1
        BY <2>1, LoopCounter, GeometryAssumption DEF Shape
      <3> QED BY <3>1, PageIdFacts
    <2>3. Place(q) \in RowOf(root_page(q))
      BY <2>2, RowOfPlace
    <2>4. flash[Place(q)] = Bits
      BY <2>1, <2>2, <2>3 DEF Sweep, Sweeping
    <2>5. Firmware[q] \subseteq Bits
      BY FirmwareAssumption DEF Content
    <2>6. i # 0
      BY <2>1, <2>2, GeometryAssumption
    <2>7. cmd.op # "program"
      BY <2>1, <2>6 DEF Shape, Commands
    <2> QED BY <2>1, <2>4, <2>5, <2>7
  <1>6. CASE EraseUpdatedRow
    <2>1. erased /\ q \notin spoiled /\ UNCHANGED flash /\ (cmd' = cmd \/ cmd'.op = "erase")
      BY <1>6 DEF EraseUpdatedRow, EraseRow
    <2> QED BY <1>1, <2>1
  <1>7. CASE WriteBack
    <2>1. /\ erased /\ q \notin spoiled /\ UNCHANGED flash /\ pc = "write" /\ page \in PageIds
          /\ i \in 0 .. RowPages - 1
          /\ MayTransfer(Root + i) <=> configured
      <3>1. pc = "write" /\ i < RowPages /\ page \in PageIds /\ i \in Nat
        BY <1>7, GeometryAssumption DEF WriteBack, Shape, Arguments, Updating, Loaded
      <3> QED BY <1>7, <3>1, AddressChecks, GeometryAssumption DEF WriteBack, Root, Shape
    <2>2. CASE ~configured
      <3>1. cmd' = cmd
        BY <1>7, <2>1, <2>2 DEF WriteBack
      <3> QED BY <1>1, <2>1, <3>1
    <2>3. CASE configured
      <3>1. cmd'.page = Root + i /\ cmd'.data = buffers[i]
        BY <1>7, <2>1, <2>3 DEF WriteBack, WritePage
      <3>2. ASSUME cmd'.page = Place(q) PROVE Firmware[q] \subseteq cmd'.data
        <4>1. root_page(q) = root_page(page) /\ i = q % RowPages
          BY <2>1, <3>1, <3>2, SamePlace DEF Root
        <4> QED BY <2>1, <2>3, <3>1, <4>1 DEF Cache, Loaded
      <3> QED BY <1>1, <2>1, <3>2
    <2> QED BY <2>2, <2>3
  <1>8. CASE Finish \/ PowerLoss
    <2>1. erased /\ q \notin spoiled /\ cmd'.op = "none"
      <3>1. UNCHANGED <<erased, spoiled>> /\ cmd' = NoCommand
        BY <1>8 DEF Finish, PowerLoss
      <3> QED BY <3>1 DEF NoCommand
    <2>2. Firmware[q] \subseteq flash'[Place(q)]
      <3>1. CASE cmd.op = "none"
        BY <1>1, <2>1, <3>1, FlashChange
      <3>2. CASE cmd.op = "erase"
        BY <1>1, <1>2, <2>1, <3>2, FlashChange
      <3>3. CASE cmd.op = "program"
        BY <1>1, <1>2, <2>1, <3>3, FlashChange
      <3>4. cmd.op \in {"none", "erase", "program"}
        BY DEF Shape, TypeOK
      <3> QED BY <3>1, <3>2, <3>3, <3>4
    <2> QED BY <2>1, <2>2
  <1> QED BY <1>3, <1>4, <1>5, <1>6, <1>7, <1>8 DEF Next, EraseApp, Update

(* While the cache is being filled no command is in progress but one that  *)
(* came before it; while it is written back only its own.                  *)
LEMMA OneCommand ==
    ASSUME Shape
    PROVE  /\ pc = "read" /\ i # 0 => cmd.op = "none"
           /\ pc = "read" => cmd.op \in {"none", "program"}
           /\ pc = "erase" => cmd.op = "none"
           /\ pc = "erase_wait" => cmd.op \in {"none", "erase"}
           /\ pc = "write" => cmd.op \in {"none", "program"}
  BY DEF Shape, TypeOK, Commands

(* What an update still has to write holds every page of its row.          *)
LEMMA CacheLoaded ==
    ASSUME FlashInv, LoadPage, configured
    PROVE  /\ buffers'[page % RowPages] = data
           /\ \A k \in 0 .. RowPages - 1 :
                 k # page % RowPages => buffers'[k] \subseteq flash[Root + k]
           /\ erased => \A q \in PageIds \ spoiled :
                 root_page(q) = root_page(page) =>
                     /\ Firmware[q] \subseteq buffers'[q % RowPages]
                     /\ q \in held => buffers'[q % RowPages] = Firmware[q]
  <1> USE DEF FlashInv
  <1>1. /\ pc = "read" /\ i = RowPages /\ page \in PageIds
        /\ data = Firmware[page] \/ page \in spoiled
        /\ page % RowPages \in 0 .. RowPages - 1
    BY PageIdFacts DEF LoadPage, Shape, Arguments, Updating
  <1>2. /\ \A k \in 0 .. RowPages - 1 : k # page % RowPages => buffers'[k] = buffers[k]
        /\ buffers'[page % RowPages] = data
    BY <1>1 DEF LoadPage, Shape, TypeOK
  <1>3. \A k \in 0 .. RowPages - 1 : buffers[k] = flash[Root + k]
    BY <1>1 DEF Cache
  <1>4. cmd.op = "none"
    BY <1>1, OneCommand, GeometryAssumption
  <1>5. ASSUME erased, NEW q \in PageIds \ spoiled, root_page(q) = root_page(page)
        PROVE  /\ Firmware[q] \subseteq buffers'[q % RowPages]
               /\ q \in held => buffers'[q % RowPages] = Firmware[q]
    <2>1. CASE q % RowPages = page % RowPages
      <3>1. q = page
        BY <1>1, <1>5, <2>1, PageIdFacts
      <3> QED BY <1>1, <1>2, <3>1
    <2>2. CASE q % RowPages # page % RowPages
      <3>1. q % RowPages \in 0 .. RowPages - 1 /\ Place(q) = Root + (q % RowPages)
        BY <1>5, PageIdFacts DEF Root
      <3>2. buffers'[q % RowPages] = flash[Place(q)]
        BY <1>2, <1>3, <2>2, <3>1
      <3>3. Firmware[q] \subseteq flash[Place(q)]
        BY <1>5 DEF NoBitLost
      <3>4. q \in held => flash[Place(q)] = Firmware[q]
        BY <1>1, <1>4, <1>5 DEF HeldSettled, Settled, Loaded
      <3> QED BY <3>2, <3>3, <3>4
    <2> QED BY <2>1, <2>2
  <1> QED BY <1>2, <1>3, <1>5

LEMMA CacheStep ==
    ASSUME FlashInv, [Next]_vars
    PROVE  Cache'
  <1> USE DEF device, args, history, nvm_is_ready, FlashInv
  <1>1. CASE UpdatePage
    <2>1. pc' = "read" /\ i' = 0
      BY <1>1 DEF UpdatePage
    <2> QED BY <2>1 DEF Cache, Loaded
  <1>2. CASE ReadPage
    <2>1. /\ pc = "read" /\ pc' = "read" /\ i' = i + 1 /\ page \in PageIds
          /\ i \in 0 .. RowPages - 1 /\ MayTransfer(Root + i) <=> configured
          /\ UNCHANGED <<flash, configured, page>>
      <3>1. pc = "read" /\ i < RowPages /\ page \in PageIds /\ i \in Nat
        BY <1>2, GeometryAssumption DEF ReadPage, Shape, Arguments, Updating
      <3> QED BY <1>2, <3>1, AddressChecks, GeometryAssumption DEF ReadPage, Root, Shape
    <2>2. ASSUME configured, NEW k \in 0 .. i' - 1
          PROVE  buffers'[k] = flash[Root + k]
      <3>1. buffers' = [buffers EXCEPT ![i] = flash[Root + i]]
        BY <1>2, <2>1, <2>2 DEF ReadPage
      <3>2. k \in 0 .. i - 1 \/ k = i
        BY <2>1, <2>2, GeometryAssumption
      <3>3. k \in 0 .. RowPages - 1
        BY <2>1, <2>2, GeometryAssumption
      <3>4. buffers'[k] = IF k = i THEN flash[Root + i] ELSE buffers[k]
        BY <3>1, <3>3 DEF Shape, TypeOK
      <3> QED BY <2>1, <2>2, <3>2, <3>4 DEF Cache
    <2> QED BY <2>1, <2>2 DEF Cache, Root, Loaded
  <1>3. CASE LoadPage
    <2>1. pc' = "erase" /\ UNCHANGED <<flash, configured, page, data, erased, spoiled, held>>
      BY <1>3 DEF LoadPage
    <2> QED BY <1>3, <2>1, CacheLoaded DEF Cache, Root
  <1>4. CASE EraseUpdatedRow \/ EraseWait \/ WriteBack
    <2>1. /\ pc \in Loaded /\ pc' \in Loaded
          /\ UNCHANGED <<flash, configured, page, data, buffers, erased, spoiled, held>>
      BY <1>4 DEF EraseUpdatedRow, EraseWait, WriteBack, Loaded
    <2>2. pc' # "read"
      BY <2>1 DEF Loaded
    <2> QED BY <2>1, <2>2 DEF Cache, Root
  <1>5. CASE Finish
    <2>1. /\ UNCHANGED <<configured, pc, i, page, data, buffers, erased, spoiled, held>>
          /\ cmd.op # "none"
      BY <1>5 DEF Finish
    <2>2. CASE pc = "read"
      <3>1. i = 0
        BY <2>1, <2>2, OneCommand
      <3> QED BY <2>1, <2>2, <3>1 DEF Cache, Loaded
    <2>3. CASE pc \in Loaded
      <3>1. ASSUME configured, NEW k \in 0 .. RowPages - 1, k # page % RowPages
            PROVE  buffers[k] \subseteq flash'[Root + k]
        <4>1. page \in PageIds /\ Root + k \in Page
          <5>1. page \in PageIds
            BY <2>3 DEF Shape, Arguments, Updating
          <5>2. \A d \in Content : root_page(page) * RowPages + k \in Page
            BY <3>1, <5>1, CommandTypes
          <5> QED BY <5>1, <5>2 DEF Root, Content
        <4>2. buffers[k] \subseteq flash[Root + k]
          BY <2>3, <3>1 DEF Cache
        <4>3. CASE cmd.op = "erase"
          BY <4>1, <4>2, <4>3, FlashChange
        <4>4. CASE cmd.op = "program" /\ cmd.page # Root + k
          BY <4>1, <4>2, <4>4, FlashChange
        <4>5. CASE cmd.op = "program" /\ cmd.page = Root + k
          <5>1. pc = "write" /\ i \in 0 .. RowPages /\ i > 0 /\ cmd.page = Root + (i - 1)
                /\ cmd.data = buffers[i - 1]
            BY <2>3, <4>5 DEF Shape, Commands, Arguments, Loaded, Updating
          <5>2. Root \in Nat
            <6>1. root_page(page) \in Nat
              BY <4>1, PageIdFacts, GeometryAssumption
            <6> QED BY <6>1, Products DEF Root
          <5>3. k = i - 1
            BY <4>5, <5>1, <5>2, GeometryAssumption
          <5> QED BY <4>2, <4>5, <5>1, <5>3, FlashChange
        <4>6. cmd.op \in {"erase", "program"}
          BY <2>1 DEF Shape, TypeOK
        <4> QED BY <4>3, <4>4, <4>5, <4>6
      <3>2. pc # "read"
        BY <2>3 DEF Loaded
      <3> QED BY <2>1, <2>3, <3>1, <3>2 DEF Cache, Root
    <2>4. CASE pc \notin Updating
      BY <2>1, <2>4 DEF Cache, Updating
    <2> QED BY <2>2, <2>3, <2>4 DEF Updating
  <1>6. CASE ConfigNvm \/ EraseApp \/ UpdateDone \/ PowerLoss
    <2>1. pc' \notin Updating
      BY <1>6
         DEF ConfigNvm, EraseApp, EraseApplication, EraseAppRow, EraseAppWait, EraseAppDone,
             UpdateDone, PowerLoss, Return, Updating, Loaded
    <2> QED BY <2>1 DEF Cache, Updating
  <1>7. CASE UNCHANGED vars
    BY <1>7 DEF vars, Cache, Root
  <1> QED BY <1>1, <1>2, <1>3, <1>4, <1>5, <1>6, <1>7 DEF Next, Update

LEMMA WrittenStep ==
    ASSUME FlashInv, [Next]_vars
    PROVE  Written'
  <1> USE DEF device, args, history, nvm_is_ready, FlashInv
  <1>1. CASE EraseWait
    <2>1. i' = 0
      BY <1>1 DEF EraseWait, Shape, Arguments
    <2> QED BY <2>1 DEF Written
  <1>2. CASE EraseUpdatedRow
    <2>1. pc' = "write" => ~configured'
      <3>1. pc = "erase" /\ page \in AppRow .. NumRows - 1
        BY <1>2, PageIdFacts DEF EraseUpdatedRow, Shape, Arguments, Updating, Loaded
      <3>2. MayErase(page * RowPages) <=> configured
        BY <3>1, AddressChecks DEF Shape
      <3> QED BY <1>2, <3>2 DEF EraseUpdatedRow, Shape, TypeOK
    <2> QED BY <2>1 DEF Written
  <1>3. CASE WriteBack
    <2>1. /\ pc = "write" /\ i' = i + 1 /\ page \in PageIds /\ i \in 0 .. RowPages - 1
          /\ MayTransfer(Root + i) <=> configured
          /\ UNCHANGED <<flash, configured, page, buffers, erased, spoiled>>
      <3>1. pc = "write" /\ i < RowPages /\ page \in PageIds /\ i \in Nat
        BY <1>3, GeometryAssumption DEF WriteBack, Shape, Arguments, Updating, Loaded
      <3> QED BY <1>3, <3>1, AddressChecks, GeometryAssumption DEF WriteBack, Root, Shape
    <2>2. ASSUME configured, erased, NEW k \in 0 .. i' - 1,
                 k # page % RowPages \/ page \notin spoiled
          PROVE  \/ flash[Root + k] = buffers[k]
                 \/ cmd'.op = "program" /\ cmd'.page = Root + k /\ cmd'.data = buffers[k]
      <3>1. /\ cmd.op = "none"
            /\ cmd'.op = "program" /\ cmd'.page = Root + i /\ cmd'.data = buffers[i]
        BY <1>3, <2>1, <2>2 DEF WriteBack, WritePage
      <3>2. k \in 0 .. i - 1 \/ k = i
        BY <2>1, <2>2, GeometryAssumption
      <3> QED BY <2>1, <2>2, <3>1, <3>2 DEF Written
    <2> QED BY <2>1, <2>2 DEF Written, Root
  <1>4. CASE Finish
    <2>1. /\ UNCHANGED <<configured, pc, i, page, data, buffers, erased, spoiled, held>>
          /\ cmd.op # "none"
      BY <1>4 DEF Finish
    <2>2. ASSUME configured, pc = "write", erased, NEW k \in 0 .. i - 1,
                 k # page % RowPages \/ page \notin spoiled
          PROVE  flash'[Root + k] = buffers[k]
      <3>1. /\ page \in PageIds /\ i \in 0 .. RowPages /\ i > 0
            /\ cmd.op = "program" /\ cmd.page = Root + (i - 1) /\ cmd.data = buffers[i - 1]
            /\ data = Firmware[page] \/ page \in spoiled
        BY <2>1, <2>2, OneCommand DEF Shape, Arguments, Commands, Updating, Loaded
      <3>2. k \in 0 .. RowPages - 1 /\ i - 1 \in 0 .. RowPages - 1
        BY <2>2, <3>1, GeometryAssumption
      <3>3. Root \in Nat /\ Root + k \in Page /\ Root + (i - 1) \in Page
        <4>1. root_page(page) \in 0 .. NumRows - 1 /\ root_page(page) \in Nat
          BY <3>1, PageIdFacts, GeometryAssumption
        <4> QED BY <3>2, <4>1, RowPagesExist, Products DEF Root
      <3>4. CASE k # i - 1
        <4>1. Root + k # cmd.page
          BY <3>1, <3>2, <3>3, <3>4
        <4>2. flash[Root + k] = buffers[k]
          BY <2>2, <4>1 DEF Written
        <4> QED BY <3>1, <3>3, <4>1, <4>2, FlashChange
      <3>5. CASE k = i - 1
        <4>1. flash'[Root + k] = flash[Root + k] \cap buffers[k]
          BY <1>4, <3>1, <3>3, <3>5 DEF Finish, Programmed, Shape, TypeOK
        <4>2. buffers[k] \subseteq flash[Root + k]
          <5>1. CASE k # page % RowPages
            BY <2>2, <3>2, <5>1 DEF Cache, Loaded
          <5>2. CASE k = page % RowPages
            <6>1. buffers[k] = Firmware[page] /\ page \notin spoiled
              BY <2>2, <3>1, <5>2 DEF Cache, Loaded
            <6>2. Place(page) = Root + k
              BY <3>1, <5>2, PageIdFacts DEF Root
            <6> QED BY <2>2, <3>1, <6>1, <6>2 DEF NoBitLost
          <5> QED BY <5>1, <5>2
        <4> QED BY <4>1, <4>2
      <3> QED BY <3>4, <3>5
    <2> QED BY <2>1, <2>2 DEF Written, Root
  <1>5. CASE ConfigNvm \/ EraseApp \/ UpdatePage \/ ReadPage \/ LoadPage \/ UpdateDone
             \/ PowerLoss
    <2>1. pc' # "write"
      BY <1>5
         DEF ConfigNvm, EraseApp, EraseApplication, EraseAppRow, EraseAppWait, EraseAppDone,
             UpdatePage, ReadPage, LoadPage, UpdateDone, PowerLoss, Return
    <2> QED BY <2>1 DEF Written
  <1>6. CASE UNCHANGED vars
    BY <1>6 DEF vars, Written, Root
  <1> QED BY <1>1, <1>2, <1>3, <1>4, <1>5, <1>6 DEF Next, Update

(* The controller finishes a command: what was settled still is, unless    *)
(* its row has been erased to be written again.                            *)
LEMMA SettledAfterFinish ==
    ASSUME FlashInv, Finish, erased, NEW q \in PageIds \ spoiled, Settled(q)
    PROVE  \/ configured /\ pc \in Loaded /\ root_page(q) = root_page(page)
           \/ flash'[Place(q)] = Firmware[q]
  <1> USE DEF FlashInv
  <1>1. /\ Place(q) \in Page /\ Firmware[q] \subseteq flash[Place(q)]
        /\ cmd.op = "program" /\ cmd.page = Place(q) => Firmware[q] \subseteq cmd.data
    BY PageIdFacts DEF NoBitLost
  <1>2. cmd.op \in {"erase", "program"}
    BY DEF Finish, nvm_is_ready, Shape, TypeOK
  <1>3. CASE cmd.op = "program"
    <2>1. flash' = [flash EXCEPT ![cmd.page] = @ \cap cmd.data]
      BY <1>3 DEF Finish, Programmed
    <2>2. CASE cmd.page = Place(q)
      <3>1. flash'[Place(q)] = flash[Place(q)] \cap cmd.data
        BY <1>1, <2>1, <2>2 DEF Shape, TypeOK
      <3> QED BY <1>1, <1>3, <2>2, <3>1 DEF Settled
    <2>3. CASE cmd.page # Place(q)
      BY <1>1, <2>1, <2>3 DEF Settled, Shape, TypeOK
    <2> QED BY <2>2, <2>3
  <1>4. CASE cmd.op = "erase"
    <2> PICK row \in AppRow .. NumRows - 1 :
            /\ CommandRow = RowOf(row)
            /\ pc = "erase_app_wait" \/ (pc = "erase_wait" /\ row = page)
      BY <1>4, CommandPlace
    <2>1. pc = "erase_wait" /\ row = page /\ configured
      BY <1>4, CommandPlace DEF Sweep, Sweeping
    <2>2. flash[Place(q)] = Firmware[q]
      BY <1>4 DEF Settled
    <2>3. CASE root_page(q) = page
      <3>1. page \in PageIds
        BY <2>1 DEF Shape, Arguments, Updating, Loaded
      <3> QED BY <2>1, <2>3, <3>1, RootIsRoot DEF Loaded
    <2>4. CASE root_page(q) # page
      <3>1. Place(q) \notin CommandRow
        BY <2>1, <2>4, RowOfPlace
      <3>2. flash'[Place(q)] = flash[Place(q)]
        BY <1>1, <1>4, <3>1 DEF Finish, Erased
      <3> QED BY <2>2, <3>2
    <2> QED BY <2>3, <2>4
  <1> QED BY <1>2, <1>3, <1>4

(* update_page returns: its page, and the others of its row, are settled.  *)
LEMMA SettledAtReturn ==
    ASSUME FlashInv, UpdateDone, configured, erased,
           NEW q \in (held \cup {page}) \ spoiled, root_page(q) = root_page(page)
    PROVE  Settled(q)
  <1> USE DEF FlashInv
  <1>1. /\ pc = "write" /\ i = RowPages /\ page \in PageIds /\ q \in PageIds
        /\ data = Firmware[page] \/ page \in spoiled
    BY DEF UpdateDone, Shape, TypeOK, Arguments, Updating, Loaded
  <1>2. /\ q % RowPages \in 0 .. RowPages - 1 /\ Place(q) = Root + (q % RowPages)
    BY <1>1, PageIdFacts DEF Root
  <1>3. q % RowPages = page % RowPages => q = page
    BY <1>1, PageIdFacts
  <1>4. buffers[q % RowPages] = Firmware[q]
    <2>1. CASE q \in held
      BY <1>1, <2>1 DEF Cache, Loaded
    <2>2. CASE q = page
      BY <1>1, <2>2 DEF Cache, Loaded
    <2> QED BY <2>1, <2>2
  <1>5. \/ flash[Root + (q % RowPages)] = buffers[q % RowPages]
        \/ /\ cmd.op = "program" /\ cmd.page = Root + (q % RowPages)
           /\ cmd.data = buffers[q % RowPages]
    BY <1>1, <1>2, <1>3 DEF Written
  <1> QED BY <1>2, <1>4, <1>5 DEF Settled

LEMMA HeldSettledStep ==
    ASSUME FlashInv, [Next]_vars
    PROVE  HeldSettled'
  <1> SUFFICES ASSUME erased', NEW q \in held' \ spoiled'
               PROVE  \/ configured' /\ pc' \in Loaded /\ root_page(q) = root_page(page')
                      \/ Settled(q)'
    BY DEF HeldSettled
  <1> USE DEF device, args, history, nvm_is_ready, FlashInv
  <1>1. ASSUME erased, q \in held, q \notin spoiled
        PROVE  /\ q \in PageIds /\ Place(q) \in Page
               /\ \/ configured /\ pc \in Loaded /\ root_page(q) = root_page(page)
                  \/ Settled(q)
    BY <1>1, PageIdFacts DEF HeldSettled, Shape, TypeOK
  <1>2. CASE ConfigNvm \/ UpdatePage \/ ReadPage \/ LoadPage \/ EraseWait \/ UNCHANGED vars
    <2>1. erased /\ q \in held /\ q \notin spoiled /\ UNCHANGED <<flash, cmd>>
      BY <1>2 DEF ConfigNvm, UpdatePage, ReadPage, LoadPage, EraseWait, vars
    <2>2. pc \in Loaded => pc' \in Loaded /\ UNCHANGED <<configured, page>>
      BY <1>2 DEF ConfigNvm, UpdatePage, ReadPage, LoadPage, EraseWait, vars, Loaded
    <2> QED BY <1>1, <2>1, <2>2 DEF Settled
  <1>3. CASE EraseApplication \/ EraseAppRow \/ EraseAppWait
    <2>1. ~erased'
      BY <1>3 DEF EraseApplication, EraseAppRow, EraseAppWait, Sweep, Sweeping
    <2> QED BY <2>1
  <1>4. CASE EraseAppDone
    <2>1. held' = {}
      BY <1>4 DEF EraseAppDone, Sweep, Sweeping
    <2> QED BY <2>1
  <1>5. CASE EraseUpdatedRow \/ WriteBack
    <2>1. /\ erased /\ q \in held /\ q \notin spoiled
          /\ pc \in Loaded /\ pc' \in Loaded /\ UNCHANGED <<flash, configured, page>>
          /\ cmd' = cmd \/ cmd.op = "none"
      BY <1>5 DEF EraseUpdatedRow, WriteBack, Loaded
    <2> QED BY <1>1, <2>1 DEF Settled
  <1>6. CASE UpdateDone
    <2>1. erased /\ q \notin spoiled /\ UNCHANGED <<flash, cmd>>
      BY <1>6 DEF UpdateDone
    <2>2. q \in held \/ (configured /\ q = page)
      BY <1>6 DEF UpdateDone
    <2>3. Settled(q)
      <3>1. CASE configured /\ root_page(q) = root_page(page)
        BY <1>6, <2>1, <2>2, <3>1, SettledAtReturn
      <3>2. CASE ~(configured /\ root_page(q) = root_page(page))
        BY <1>1, <2>1, <2>2, <3>2
      <3> QED BY <3>1, <3>2
    <2> QED BY <2>1, <2>3 DEF Settled
  <1>7. CASE Finish
    <2>1. /\ erased /\ q \in held /\ q \notin spoiled
          /\ UNCHANGED <<configured, pc, page>>
      BY <1>7 DEF Finish
    <2> QED BY <1>1, <1>7, <2>1, SettledAfterFinish DEF Settled
  <1>8. CASE PowerLoss
    <2>1. /\ erased /\ q \in held /\ q \notin spoiled
          /\ pc = "idle" \/ root_page(q) # root_page(page)
          /\ cmd.op = "none" \/ cmd.page \notin RowOf(root_page(q))
      BY <1>8 DEF PowerLoss, InFlight
    <2>2. root_page(q) \in AppRow .. NumRows - 1 /\ Place(q) \in RowOf(root_page(q))
      BY <1>1, <2>1, PageIdFacts, RowOfPlace
    <2>3. flash[Place(q)] = Firmware[q]
      BY <1>1, <2>1, <2>2 DEF Settled, Loaded
    <2>4. flash'[Place(q)] = flash[Place(q)]
      <3>1. CASE cmd.op = "none"
        BY <3>1, FlashChange
      <3>2. CASE cmd.op = "program"
        BY <1>1, <2>1, <2>2, <3>2, FlashChange
      <3>3. CASE cmd.op = "erase"
        <4> PICK row \in AppRow .. NumRows - 1 :
                cmd.page = row * RowPages /\ CommandRow = RowOf(row)
          BY <3>3, CommandPlace
        <4>1. cmd.page \in RowOf(row)
          BY Products, GeometryAssumption DEF RowOf
        <4>2. Place(q) \notin CommandRow
          BY <1>1, <2>1, <3>3, <4>1, RowOfPlace
        <4> QED BY <1>1, <2>1, <3>3, <4>2, FlashChange
      <3>4. cmd.op \in {"none", "erase", "program"}
        BY DEF Shape, TypeOK
      <3> QED BY <3>1, <3>2, <3>3, <3>4
    <2> QED BY <2>3, <2>4 DEF Settled
  <1> QED BY <1>2, <1>3, <1>4, <1>5, <1>6, <1>7, <1>8 DEF Next, EraseApp, Update

LEMMA FlashInvStep == FlashInv /\ [Next]_vars => FlashInv'
  BY ShapeStep, SweepStep, NoBitLostStep, CacheStep, WrittenStep, HeldSettledStep DEF FlashInv

(* The rows, the cache and the flash agree in every reachable state.       *)
THEOREM FlashInvariance == Spec => []FlashInv
  BY FlashInvInit, FlashInvStep, PTL DEF Spec

LEMMA HeldFromInv ==
    ASSUME FlashInv PROVE HeldPacketsInPlace
  <1> SUFFICES ASSUME erased, NEW q \in held \ spoiled, ~InFlight(q)
               PROVE  flash[Place(q)] = Firmware[q]
    BY DEF HeldPacketsInPlace
  <1>1. q \in PageIds /\ root_page(q) \in AppRow .. NumRows - 1
    BY PageIdFacts DEF FlashInv, Shape, TypeOK
  <1>2. Place(q) \in RowOf(root_page(q))
    BY <1>1, RowOfPlace
  <1> QED BY <1>2 DEF FlashInv, HeldSettled, Settled, InFlight, Loaded

(* After an erase every page updated, never with damaged data, and not in  *)
(* the row being written when power failed is in its place, in whatever    *)
(* order and however often pages come and power fails (flash.c:81-136).    *)
THEOREM HeldPagesStay == Spec => []HeldPacketsInPlace
  BY FlashInvariance, HeldFromInv, PTL

-----------------------------------------------------------------------------
(* What is still to be written back is in the cache as it was in the row,  *)
(* or the row has been erased for it.                                      *)
RowInPlace ==
    configured /\ pc \in Loaded =>
        \A k \in i .. RowPages - 1 :
            /\ Rewriting => flash[Root + k] = Bits
            /\ ~Rewriting /\ k # page % RowPages => buffers[k] = flash[Root + k]

StoreInv == FlashInv /\ RowInPlace

(* The pages of the row that a call works on, while it has loaded it.      *)
LEMMA RowPlaces ==
    ASSUME Shape, pc \in Updating
    PROVE  /\ page \in PageIds /\ page \in Nat /\ i \in 0 .. RowPages
           /\ RowPages \in Nat /\ RowPages > 0
           /\ root_page(page) \in AppRow .. NumRows - 1
           /\ page % RowPages \in 0 .. RowPages - 1
           /\ Root \in Nat
           /\ \A k \in 0 .. RowPages - 1 : Root + k \in Page
           /\ \A k \in i .. RowPages - 1 : k \in 0 .. RowPages - 1
  <1>1. /\ page \in PageIds /\ i \in 0 .. RowPages
        /\ page \in AppRow .. NumRows - 1
        /\ root_page(page) \in AppRow .. NumRows - 1
        /\ page % RowPages \in 0 .. RowPages - 1
    BY PageIdFacts DEF Shape, Arguments
  <1>2. root_page(page) \in 0 .. NumRows - 1 /\ root_page(page) \in Nat /\ page \in Nat
    BY <1>1, GeometryAssumption
  <1> QED BY <1>1, <1>2, RowPagesExist, Products, GeometryAssumption DEF Root

(* The row that is erased is the root row, or holds none of the pages.     *)
LEMMA RowErased ==
    ASSUME Shape, Finish, cmd.op = "erase", pc = "erase_wait"
    PROVE  /\ UNCHANGED <<configured, pc, i, page, data, buffers>>
           /\ cmd'.op = "none" /\ configured /\ i = 0
           /\ CommandRow = RowOf(page)
           /\ page = root_page(page) =>
                 \A k \in 0 .. RowPages - 1 : flash'[Root + k] = Bits
           /\ \A q \in PageIds : root_page(q) # page => flash'[Place(q)] = flash[Place(q)]
           /\ page # root_page(page) =>
                 \A k \in 0 .. RowPages - 1 : flash'[Root + k] = flash[Root + k]
  <1> USE DEF nvm_is_ready
  <1>1. /\ UNCHANGED <<configured, pc, i, page, data, buffers>> /\ cmd'.op = "none"
        /\ cmd.op # "none" /\ flash' = Erased(CommandRow)
    BY DEF Finish, args, NoCommand
  <1>2. /\ configured /\ i = 0 /\ CommandRow = RowOf(page)
    BY <1>1, CommandPlace DEF Shape, Arguments
  <1>3. page \in PageIds /\ page \in AppRow .. NumRows - 1
        /\ \A k \in 0 .. RowPages - 1 : Root + k \in Page
    BY RowPlaces, PageIdFacts DEF Updating, Loaded
  <1>4. \A p \in Page : flash'[p] = IF p \in RowOf(page) THEN Bits ELSE flash[p]
    BY <1>1, <1>2 DEF Erased
  <1>5. ASSUME NEW q \in PageIds, root_page(q) # page
        PROVE  flash'[Place(q)] = flash[Place(q)]
    BY <1>3, <1>4, <1>5, RowOfPlace, PageIdFacts
  <1>6. ASSUME NEW k \in 0 .. RowPages - 1
        PROVE  Root + k \in RowOf(page) <=> root_page(page) = page
    <2>1. /\ root_page(page) \in Nat /\ page \in Nat
          /\ root_page(page) * RowPages \in Nat /\ page * RowPages \in Nat
      BY <1>3, PageIdFacts, Products, GeometryAssumption
    <2>2. root_page(page) = page => Root + k \in RowOf(page)
      BY <1>6, <2>1, GeometryAssumption DEF RowOf, Root
    <2>3. ASSUME Root + k \in RowOf(page) PROVE root_page(page) = page
      <3> DEFINE h == root_page(page) * RowPages + k - page * RowPages
      <3>1. h \in 0 .. RowPages - 1
            /\ root_page(page) * RowPages + k = page * RowPages + h
        BY <1>6, <2>1, <2>3, GeometryAssumption DEF RowOf, Root
      <3> QED BY <1>6, <2>1, <3>1, RowsApart
    <2> QED BY <2>2, <2>3
  <1> QED BY <1>1, <1>2, <1>3, <1>4, <1>5, <1>6

(* A page that is given to the controller has no part in what is left.     *)
LEMMA PageWritten ==
    ASSUME Shape, Finish, cmd.op = "program"
    PROVE  /\ UNCHANGED <<configured, pc, i, page, data, buffers>>
           /\ cmd'.op = "none" /\ pc \notin {"erase", "erase_wait"}
           /\ \A p \in Page : flash'[p] = IF p = cmd.page THEN flash[p] \cap cmd.data
                                          ELSE flash[p]
           /\ pc = "write" => cmd.page = Root + (i - 1) /\ i > 0
  <1> USE DEF nvm_is_ready
  <1>1. flash' = [flash EXCEPT ![cmd.page] = @ \cap cmd.data]
    BY DEF Finish, Programmed
  <1>2. /\ UNCHANGED <<configured, pc, i, page, data, buffers>> /\ cmd'.op = "none"
    BY DEF Finish, args, NoCommand
  <1>3. pc \notin {"erase", "erase_wait"} /\ (pc = "write" => cmd.page = Root + (i - 1) /\ i > 0)
    BY DEF Shape, Commands
  <1> QED BY <1>1, <1>2, <1>3 DEF Shape, TypeOK

LEMMA RowInPlaceStep ==
    ASSUME StoreInv, [Next]_vars
    PROVE  RowInPlace'
  <1> USE DEF device, args, history, nvm_is_ready, StoreInv, FlashInv
  <1>1. CASE LoadPage
    <2>1. /\ pc = "read" /\ i = RowPages /\ pc' = "erase"
          /\ UNCHANGED <<flash, configured, page>>
      BY <1>1 DEF LoadPage
    <2>2. page \in PageIds /\ RowPages \in Nat /\ page % RowPages \in 0 .. RowPages - 1
      BY <2>1, RowPlaces DEF Updating
    <2>3. ASSUME configured, NEW k \in 0 .. RowPages - 1, k # page % RowPages
          PROVE  buffers'[k] = flash[Root + k]
      <3>1. buffers'[k] = buffers[k]
        BY <1>1, <2>2, <2>3 DEF LoadPage, Shape, TypeOK
      <3> QED BY <2>1, <2>3, <3>1 DEF Cache
    <2>4. i' = 0 /\ ~Rewriting'
      BY <1>1, <2>1 DEF LoadPage, Rewriting
    <2> QED BY <2>1, <2>3, <2>4 DEF RowInPlace, Root
  <1>2. CASE EraseUpdatedRow
    <2>1. pc = "erase" /\ UNCHANGED <<flash, configured, i, page, buffers>> /\ ~Rewriting
      BY <1>2 DEF EraseUpdatedRow, Rewriting
    <2>2. configured => cmd'.op = "erase" /\ pc' = "erase_wait"
      <3>1. page \in AppRow .. NumRows - 1
        BY <2>1, RowPlaces, PageIdFacts DEF Updating, Loaded
      <3>2. MayErase(page * RowPages) <=> configured
        BY <3>1, AddressChecks DEF Shape
      <3> QED BY <1>2, <3>2 DEF EraseUpdatedRow, EraseRow
    <2>3. configured => ~Rewriting'
      BY <2>2 DEF Rewriting
    <2>4. pc \in Loaded
      BY <2>1 DEF Loaded
    <2> QED BY <2>1, <2>3, <2>4 DEF RowInPlace, Root
  <1>3. CASE EraseWait
    <2>1. /\ pc = "erase_wait" /\ pc' = "write" /\ cmd.op = "none"
          /\ UNCHANGED <<flash, configured, cmd, i, page, buffers>>
      BY <1>3 DEF EraseWait
    <2>2. Rewriting' <=> Rewriting
      BY <2>1 DEF Rewriting
    <2>3. pc \in Loaded
      BY <2>1 DEF Loaded
    <2> QED BY <2>1, <2>2, <2>3 DEF RowInPlace, Root
  <1>4. CASE WriteBack
    <2>1. /\ pc = "write" /\ pc' = "write" /\ i' = i + 1
          /\ UNCHANGED <<flash, configured, page, buffers>>
      BY <1>4 DEF WriteBack
    <2>2. Rewriting' <=> Rewriting
      BY <2>1 DEF Rewriting
    <2>3. pc \in Loaded /\ pc \in Updating
      BY <2>1 DEF Loaded, Updating
    <2>4. \A k \in i' .. RowPages - 1 : k \in i .. RowPages - 1
      BY <2>1, <2>3, RowPlaces
    <2> QED BY <2>1, <2>2, <2>3, <2>4 DEF RowInPlace, Root
  <1>5. CASE Finish
    <2>1. UNCHANGED <<configured, pc, i, page, data, buffers>> /\ cmd.op # "none"
      BY <1>5 DEF Finish
    <2>2. cmd.op \in {"erase", "program"}
      BY <2>1 DEF Shape, TypeOK
    <2> SUFFICES ASSUME configured, pc \in Loaded, NEW k \in i .. RowPages - 1
                 PROVE  /\ Rewriting' => flash'[Root + k] = Bits
                        /\ ~Rewriting' /\ k # page % RowPages => buffers[k] = flash'[Root + k]
      BY <2>1 DEF RowInPlace, Root
    <2>3. /\ k \in 0 .. RowPages - 1 /\ i \in 0 .. RowPages /\ Root \in Nat /\ Root + k \in Page
      BY RowPlaces DEF Updating
    <2>4. CASE cmd.op = "program"
      <3>1. pc = "write" /\ cmd.page = Root + (i - 1) /\ i > 0
        BY <1>5, <2>4, PageWritten DEF Loaded
      <3>2. Root + k # cmd.page
        BY <2>3, <3>1, GeometryAssumption
      <3>3. flash'[Root + k] = flash[Root + k]
        BY <1>5, <2>3, <2>4, <3>2, PageWritten
      <3>4. Rewriting' <=> Rewriting
        BY <2>1, <3>1 DEF Rewriting
      <3> QED BY <3>3, <3>4 DEF RowInPlace
    <2>5. CASE cmd.op = "erase"
      <3>1. pc = "erase_wait"
        BY <2>5 DEF Shape, Commands, Loaded
      <3>2. /\ cmd'.op = "none"
            /\ page = root_page(page) => flash'[Root + k] = Bits
            /\ page # root_page(page) => flash'[Root + k] = flash[Root + k]
        BY <1>5, <2>3, <2>5, <3>1, RowErased
      <3>3. Rewriting' <=> page = root_page(page)
        BY <2>1, <3>1, <3>2 DEF Rewriting
      <3>4. ~Rewriting
        BY <2>5, <3>1 DEF Rewriting
      <3> QED BY <3>2, <3>3, <3>4 DEF RowInPlace
    <2> QED BY <2>2, <2>4, <2>5
  <1>6. CASE ConfigNvm \/ EraseApp \/ UpdatePage \/ ReadPage \/ UpdateDone \/ PowerLoss
    <2>1. pc' \notin Loaded
      BY <1>6
         DEF ConfigNvm, EraseApp, EraseApplication, EraseAppRow, EraseAppWait, EraseAppDone,
             UpdatePage, ReadPage, UpdateDone, PowerLoss, Return, Loaded
    <2> QED BY <2>1 DEF RowInPlace
  <1>7. CASE UNCHANGED vars
    BY <1>7 DEF vars, RowInPlace, Root, Rewriting
  <1> QED BY <1>1, <1>2, <1>3, <1>4, <1>5, <1>6, <1>7 DEF Next, Update

LEMMA StoreInvariance == Spec => []StoreInv
  <1>1. Init => RowInPlace
    BY DEF Init, RowInPlace
  <1>2. StoreInv /\ [Next]_vars => StoreInv'
    BY FlashInvStep, RowInPlaceStep DEF StoreInv
  <1>3. Init => StoreInv
    BY <1>1, FlashInvInit DEF StoreInv
  <1> QED BY <1>2, <1>3, PTL DEF Spec

-----------------------------------------------------------------------------
(* What the pages hold, step by step.                                      *)
LEMMA RowsOfPages ==
    \A q \in PageIds : Roots[q] = root_page(q)
  BY DEF Roots

LEMMA KeptType == Shape => Kept \in [PageIds -> SUBSET Bits]
  <1> SUFFICES ASSUME Shape, NEW q \in PageIds PROVE ContentOf(q) \in SUBSET Bits
    BY DEF Kept
  <1>1. Place(q) \in Page /\ q % RowPages \in 0 .. RowPages - 1
    BY PageIdFacts
  <1>2. flash[Place(q)] \in SUBSET Bits /\ buffers[q % RowPages] \in SUBSET Bits
    BY <1>1 DEF Shape, TypeOK, Content
  <1> QED BY <1>2 DEF ContentOf

LEMMA KeptPages ==
    /\ \A q \in PageIds : Kept[q] = ContentOf(q) /\ Kept'[q] = ContentOf(q)'
    /\ (\A q \in PageIds : ContentOf(q)' = ContentOf(q)) => Kept' = Kept
  BY DEF Kept

(* Nothing is moved, and no row is being rewritten.                        *)
LEMMA NothingMoves ==
    ASSUME ~Rewriting, ~Rewriting', flash' = flash,
           \/ cmd' = cmd
           \/ cmd.op # "program" /\ cmd'.op # "program"
    PROVE  Kept' = Kept
  <1>1. \A q \in PageIds : ContentOf(q)' = ContentOf(q)
    BY DEF ContentOf, InCache
  <1> QED BY <1>1, KeptPages

LEMMA EraseAppRefines ==
    ASSUME StoreInv, EraseApp
    PROVE  [Pages!Next]_Pages!vars
  <1> USE DEF device, args, history, nvm_is_ready, StoreInv, FlashInv
  <1>1. /\ pc \in {"idle"} \cup Sweeping /\ pc' \in {"idle"} \cup Sweeping
        /\ ~Rewriting /\ ~Rewriting' /\ UNCHANGED <<flash, configured>>
    BY DEF EraseApp, EraseApplication, EraseAppRow, EraseAppWait, EraseAppDone, Return,
           Sweeping, Rewriting
  <1>2. Kept' = Kept
    <2>1. cmd' = cmd \/ (cmd.op = "none" /\ cmd'.op = "erase")
      BY DEF EraseApp, EraseApplication, EraseAppRow, EraseAppWait, EraseAppDone, EraseRow
    <2> QED BY <1>1, <2>1, NothingMoves
  <1>3. CASE EraseApplication
    <2>1. Call = "none" /\ Call' = "wipe" /\ UNCHANGED <<page, data>>
      BY <1>3 DEF EraseApplication, Call
    <2>2. Pages!BeginWipe
      BY <1>1, <1>2, <2>1 DEF Pages!BeginWipe
    <2> QED BY <2>2 DEF Pages!Next
  <1>4. CASE EraseAppRow \/ EraseAppWait
    <2>1. Call = "wipe" /\ Call' = "wipe" /\ UNCHANGED <<page, data>>
      BY <1>4 DEF EraseAppRow, EraseAppWait, Call
    <2> QED BY <1>1, <1>2, <2>1 DEF Pages!vars
  <1>5. CASE EraseAppDone
    <2>1. /\ pc = "erase_app" /\ AppRow + i = NumRows
          /\ Call = "wipe" /\ Call' = "none" /\ page' = NoPage /\ data' = {}
      BY <1>5 DEF EraseAppDone, Return, Call
    <2>2. ASSUME configured, NEW q \in PageIds PROVE Kept[q] = Bits
      <3>1. /\ root_page(q) \in AppRow .. AppRow + i - 1
            /\ Place(q) \in RowOf(root_page(q))
        <4>1. i \in Nat /\ AppRow \in Nat /\ root_page(q) \in AppRow .. NumRows - 1
          BY PageIdFacts, LoopCounter, GeometryAssumption DEF Shape
        <4> QED BY <2>1, <4>1, RowOfPlace
      <3>2. flash[Place(q)] = Bits
        BY <2>1, <2>2, <3>1 DEF Sweep, Sweeping
      <3>3. i # 0
        BY <3>1, GeometryAssumption
      <3>4. cmd.op # "program"
        BY <2>1, <3>3 DEF Shape, Commands
      <3> QED BY <1>1, <3>2, <3>4, KeptPages DEF ContentOf, InCache
    <2>3. Pages!EndWipe
      BY <1>1, <1>2, <2>1, <2>2 DEF Pages!EndWipe, Pages!Return
    <2> QED BY <2>3 DEF Pages!Next
  <1> QED BY <1>3, <1>4, <1>5 DEF EraseApp

(* A page of the row is written back: it is the one being put, or it was   *)
(* there already, in the row or in the cache.                              *)
LEMMA WriteBackMoves ==
    ASSUME StoreInv, WriteBack, configured,
           NEW q \in PageIds
    PROVE  ContentOf(q)' =
               IF ~Rewriting /\ i = page % RowPages /\ q = page
               THEN ContentOf(q) \cap data ELSE ContentOf(q)
  <1> USE DEF device, args, history, nvm_is_ready, StoreInv, FlashInv
  <1>1. /\ pc = "write" /\ pc' = "write" /\ i' = i + 1
        /\ UNCHANGED <<flash, configured, page, data, buffers>>
    BY DEF WriteBack
  <1>2. /\ page \in PageIds /\ i \in 0 .. RowPages - 1 /\ i \in i .. RowPages - 1
        /\ RowPages \in Nat
    BY <1>1, RowPlaces DEF WriteBack, Updating, Loaded
  <1>3. cmd.op = "none" /\ cmd'.op = "program" /\ cmd'.page = Root + i /\ cmd'.data = buffers[i]
    <2>1. MayTransfer(Root + i)
      BY <1>2, AddressChecks DEF Shape, Root
    <2> QED BY <2>1 DEF WriteBack, WritePage
  <1>4. /\ q % RowPages \in 0 .. RowPages - 1
        /\ Place(q) = root_page(q) * RowPages + (q % RowPages)
        /\ Place(q) = Root + i <=> root_page(q) = root_page(page) /\ q % RowPages = i
        /\ root_page(q) = root_page(page) /\ q % RowPages = page % RowPages => q = page
    BY <1>2, PageIdFacts, SamePlace DEF Root
  <1>5. /\ Rewriting' <=> Rewriting
        /\ Rewriting => page = root_page(page)
    BY <1>1 DEF Rewriting
  <1>6. buffers[i] \subseteq Bits
    BY <1>2 DEF Shape, TypeOK, Content
  <1>7. CASE root_page(q) = root_page(page) /\ q % RowPages = i
    <2>1. /\ Place(q) = Root + i
          /\ ContentOf(q)' = flash[Root + i] \cap buffers[i]
      BY <1>1, <1>2, <1>3, <1>4, <1>7 DEF ContentOf, InCache
    <2>2. CASE Rewriting
      <3>1. flash[Root + i] = Bits
        BY <1>1, <1>2, <2>2 DEF RowInPlace, Loaded
      <3>2. ContentOf(q) = buffers[i]
        BY <1>2, <1>5, <1>7, <2>2 DEF ContentOf, InCache
      <3> QED BY <1>6, <2>1, <2>2, <3>1, <3>2
    <2>3. CASE ~Rewriting
      <3>1. ContentOf(q) = flash[Root + i]
        BY <1>3, <2>1, <2>3 DEF ContentOf, InCache
      <3>2. CASE i = page % RowPages
        <4>1. buffers[i] = data /\ q = page
          BY <1>1, <1>4, <1>7, <3>2 DEF Cache, Loaded
        <4> QED BY <2>1, <2>3, <3>1, <3>2, <4>1
      <3>3. CASE i # page % RowPages
        <4>1. buffers[i] = flash[Root + i]
          BY <1>1, <1>2, <2>3, <3>3 DEF RowInPlace, Loaded
        <4> QED BY <2>1, <3>1, <3>3, <4>1
      <3> QED BY <3>2, <3>3
    <2> QED BY <2>2, <2>3
  <1>8. CASE ~(root_page(q) = root_page(page) /\ q % RowPages = i)
    <2>1. Place(q) # cmd'.page
      BY <1>3, <1>4, <1>8
    <2>2. InCache(q)' <=> InCache(q)
      BY <1>1, <1>2, <1>4, <1>5, <1>8 DEF InCache
    <2>3. ContentOf(q)' = ContentOf(q)
      BY <1>1, <1>3, <2>1, <2>2 DEF ContentOf
    <2>4. ~(i = page % RowPages /\ q = page)
      BY <1>8
    <2> QED BY <2>3, <2>4
  <1> QED BY <1>7, <1>8

LEMMA UpdateRefines ==
    ASSUME StoreInv, Update
    PROVE  [Pages!Next \/ Overwrite]_Pages!vars
  <1> USE DEF device, args, history, nvm_is_ready, StoreInv, FlashInv
  <1>1. CASE UpdatePage
    <2>1. /\ ~Rewriting /\ ~Rewriting' /\ UNCHANGED <<flash, cmd, configured>>
          /\ Call = "none" /\ page' \in PageIds /\ data' \in Payload[page']
      BY <1>1 DEF UpdatePage, Rewriting, Call
    <2>2. Call' = "put"
      BY <1>1, <2>1 DEF UpdatePage, Call, Stored
    <2>3. Kept' = Kept
      BY <2>1, NothingMoves
    <2>4. Pages!BeginPut
      BY <2>1, <2>2, <2>3 DEF Pages!BeginPut
    <2> QED BY <2>4 DEF Pages!Next
  <1>2. CASE ReadPage \/ LoadPage \/ EraseUpdatedRow
    <2>1. /\ ~Rewriting /\ UNCHANGED <<flash, configured, page, data>>
          /\ pc \in {"read", "erase"} /\ pc' \in {"read", "erase", "erase_wait", "write"}
          /\ cmd' = cmd \/ (cmd.op = "none" /\ cmd'.op = "erase")
          /\ pc' = "erase_wait" => cmd'.op = "erase"
      BY <1>2 DEF ReadPage, LoadPage, EraseUpdatedRow, EraseRow, Rewriting
    <2>2. pc' = "write" => ~configured
      <3>1. pc = "erase" => page \in AppRow .. NumRows - 1
        BY RowPlaces, PageIdFacts DEF Updating, Loaded
      <3>2. pc = "erase" => (MayErase(page * RowPages) <=> configured)
        BY <3>1, AddressChecks DEF Shape
      <3> QED BY <1>2, <3>2 DEF ReadPage, LoadPage, EraseUpdatedRow
    <2>3. ~Rewriting' /\ Call = "put" /\ Call' = "put"
      BY <2>1, <2>2 DEF Rewriting, Call, Stored
    <2>4. Kept' = Kept
      BY <2>1, <2>3, NothingMoves
    <2> QED BY <2>1, <2>3, <2>4 DEF Pages!vars
  <1>3. CASE EraseWait
    <2>1. /\ pc = "erase_wait" /\ pc' = "write" /\ cmd.op = "none"
          /\ UNCHANGED <<flash, configured, cmd, i, page, data, buffers>>
      BY <1>3 DEF EraseWait
    <2>2. (Rewriting' <=> Rewriting) /\ i = 0 /\ page % RowPages \in 0 .. RowPages - 1
      BY <2>1, RowPlaces DEF Rewriting, Shape, Arguments, Updating, Loaded
    <2>3. Call' = Call
      BY <2>1, <2>2 DEF Call, Stored
    <2>4. \A q \in PageIds : ContentOf(q)' = ContentOf(q)
      BY <2>1, <2>2 DEF ContentOf, InCache
    <2> QED BY <2>1, <2>3, <2>4, KeptPages DEF Pages!vars
  <1>4. CASE WriteBack
    <2>1. /\ pc = "write" /\ pc' = "write" /\ i' = i + 1
          /\ UNCHANGED <<flash, configured, page, data, buffers>>
          /\ Rewriting' <=> Rewriting
      BY <1>4 DEF WriteBack, Rewriting
    <2>2. /\ page \in PageIds /\ i \in Nat /\ page % RowPages \in 0 .. RowPages - 1
          /\ RowPages \in Nat
          /\ MayTransfer(Root + i) <=> configured
      <3>1. page \in PageIds /\ i \in 0 .. RowPages - 1
        BY <1>4, <2>1, RowPlaces DEF WriteBack, Updating, Loaded
      <3> QED BY <3>1, AddressChecks, PageIdFacts, GeometryAssumption DEF Shape, Root
    <2>3. CASE ~configured
      <3>1. cmd' = cmd
        BY <1>4, <2>2, <2>3 DEF WriteBack
      <3>2. ~Rewriting /\ Call = "put" /\ Call' = "put"
        BY <2>1, <2>3 DEF Call, Stored, Rewriting
      <3> QED BY <2>1, <3>1, <3>2, NothingMoves DEF Pages!vars
    <2>4. CASE configured /\ ~Rewriting /\ i = page % RowPages
      <3>1. Call = "put" /\ Call' = "stored" /\ page # root_page(page)
        BY <2>1, <2>2, <2>4 DEF Call, Stored, Rewriting
      <3>2. \A q \in PageIds :
                ContentOf(q)' = IF q = page THEN ContentOf(q) \cap data ELSE ContentOf(q)
        BY <1>4, <2>4, WriteBackMoves
      <3>3. CASE data \subseteq Kept[page]
        <4>1. Kept' = [Kept EXCEPT ![page] = data]
          BY <2>2, <3>2, <3>3 DEF Kept
        <4>2. Pages!Put
          BY <2>1, <2>4, <3>1, <4>1 DEF Pages!Put
        <4> QED BY <4>2 DEF Pages!Next
      <3>4. CASE ~(data \subseteq Kept[page])
        <4>1. \A q \in PageIds \ {page} : Kept'[q] = Kept[q]
          BY <3>2, KeptPages
        <4> QED BY <2>1, <2>4, <3>1, <3>4, <4>1 DEF Overwrite
      <3> QED BY <3>3, <3>4
    <2>5. CASE configured /\ ~(~Rewriting /\ i = page % RowPages)
      <3>1. Call' = Call
        BY <2>1, <2>2, <2>5 DEF Call, Stored
      <3>2. \A q \in PageIds : ContentOf(q)' = ContentOf(q)
        BY <1>4, <2>5, WriteBackMoves
      <3> QED BY <2>1, <3>1, <3>2, KeptPages DEF Pages!vars
    <2> QED BY <2>3, <2>4, <2>5
  <1>5. CASE UpdateDone
    <2>1. /\ pc = "write" /\ i = RowPages /\ pc' = "idle" /\ page' = NoPage /\ data' = {}
          /\ UNCHANGED <<flash, configured, cmd>>
      BY <1>5 DEF UpdateDone, Return
    <2>2. /\ page % RowPages \in 0 .. RowPages - 1 /\ RowPages \in Nat /\ configured \in BOOLEAN
          /\ \A q \in PageIds : q % RowPages \in 0 .. RowPages - 1
      BY <2>1, RowPlaces, PageIdFacts DEF Updating, Loaded, Shape, TypeOK
    <2>3. Call' = "none" /\ (Call = "stored" \/ (Call = "put" /\ ~configured))
      BY <2>1, <2>2 DEF Call, Stored, Rewriting
    <2>4. \A q \in PageIds : ~InCache(q) /\ ~InCache(q)'
      BY <2>1, <2>2 DEF InCache, Rewriting
    <2>5. Kept' = Kept
      BY <2>1, <2>4, KeptPages DEF ContentOf
    <2>6. Pages!EndPut
      BY <2>1, <2>3, <2>5 DEF Pages!EndPut, Pages!Return
    <2> QED BY <2>6 DEF Pages!Next
  <1> QED BY <1>1, <1>2, <1>3, <1>4, <1>5 DEF Update

LEMMA FinishRefines ==
    ASSUME StoreInv, Finish
    PROVE  [Pages!Next]_Pages!vars
  <1> USE DEF device, args, history, nvm_is_ready, StoreInv, FlashInv
  <1>1. /\ UNCHANGED <<configured, pc, i, page, data, buffers>>
        /\ cmd'.op = "none" /\ cmd.op \in {"erase", "program"}
    BY DEF Finish, NoCommand, Shape, TypeOK
  <1>2. CASE cmd.op = "program"
    <2>1. /\ pc \notin {"erase", "erase_wait"}
          /\ \A p \in Page : flash'[p] = IF p = cmd.page THEN flash[p] \cap cmd.data
                                         ELSE flash[p]
      BY <1>2, PageWritten
    <2>2. Rewriting' <=> Rewriting
      BY <1>1, <2>1 DEF Rewriting
    <2>3. Call' = Call
      BY <1>1, <2>2 DEF Call, Stored
    <2>4. ASSUME NEW q \in PageIds PROVE ContentOf(q)' = ContentOf(q)
      <3>1. Place(q) \in Page
        BY PageIdFacts
      <3>2. InCache(q)' <=> InCache(q)
        BY <1>1, <2>2 DEF InCache
      <3>3. flash'[Place(q)] = IF Place(q) = cmd.page THEN flash[Place(q)] \cap cmd.data
                               ELSE flash[Place(q)]
        BY <2>1, <3>1
      <3> QED BY <1>1, <1>2, <3>2, <3>3 DEF ContentOf
    <2> QED BY <1>1, <2>3, <2>4, KeptPages DEF Pages!vars
  <1>3. CASE cmd.op = "erase" /\ pc = "erase_wait"
    <2>1. /\ configured /\ i = 0 /\ ~Rewriting
          /\ page = root_page(page) =>
                 \A k \in 0 .. RowPages - 1 : flash'[Root + k] = Bits
          /\ \A q \in PageIds : root_page(q) # page => flash'[Place(q)] = flash[Place(q)]
          /\ Rewriting' <=> page = root_page(page)
      BY <1>1, <1>3, RowErased DEF Rewriting
    <2>2. /\ page \in PageIds /\ RowPages \in Nat
          /\ page % RowPages \in 0 .. RowPages - 1
      BY <1>3, RowPlaces DEF Updating, Loaded
    <2>3. \A q \in PageIds : ContentOf(q) = flash[Place(q)]
      BY <1>3, <2>1 DEF ContentOf, InCache
    <2>4. CASE page # root_page(page)
      <3>1. \A q \in PageIds : root_page(q) # page
        BY <2>2, <2>4, RootIsRoot
      <3>2. \A q \in PageIds : ContentOf(q)' = flash'[Place(q)]
        BY <1>1, <2>1, <2>4 DEF ContentOf, InCache
      <3>3. Call' = Call
        BY <1>1, <1>3, <2>1, <2>4 DEF Call, Stored
      <3> QED BY <1>1, <2>1, <2>3, <3>1, <3>2, <3>3, KeptPages DEF Pages!vars
    <2>5. CASE page = root_page(page)
      <3>1. Call = "put" /\ Call' = "stored"
        BY <1>1, <1>3, <2>1, <2>5 DEF Call, Stored
      <3>2. ASSUME NEW q \in PageIds
            PROVE  ContentOf(q)' = IF q = page THEN data ELSE ContentOf(q)
        <4>1. /\ q % RowPages \in 0 .. RowPages - 1
              /\ Place(q) = root_page(q) * RowPages + (q % RowPages)
              /\ root_page(q) = root_page(page) /\ q % RowPages = page % RowPages => q = page
          BY <2>2, PageIdFacts
        <4>2. CASE root_page(q) # page
          BY <1>1, <2>1, <2>3, <2>5, <4>2 DEF ContentOf, InCache
        <4>3. CASE root_page(q) = page
          <5>1. ContentOf(q)' = buffers[q % RowPages]
            BY <1>1, <2>1, <2>5, <4>1, <4>3 DEF ContentOf, InCache
          <5>2. CASE q = page
            <6>1. buffers[page % RowPages] = data
              BY <1>3, <2>1 DEF Cache, Loaded
            <6> QED BY <5>1, <5>2, <6>1
          <5>3. CASE q # page
            <6>1. q % RowPages # page % RowPages
              BY <2>5, <4>1, <4>3, <5>3
            <6>2. buffers[q % RowPages] = flash[Root + (q % RowPages)]
              BY <1>3, <2>1, <4>1, <6>1 DEF RowInPlace, Loaded
            <6>3. Place(q) = Root + (q % RowPages)
              BY <2>5, <4>1, <4>3 DEF Root
            <6> QED BY <2>3, <5>1, <5>3, <6>2, <6>3
          <5> QED BY <5>2, <5>3
        <4> QED BY <4>2, <4>3
      <3>3. Kept' = [Kept EXCEPT ![page] = data]
        BY <3>2 DEF Kept
      <3>4. Pages!Put
        BY <1>1, <2>1, <3>1, <3>3 DEF Pages!Put
      <3> QED BY <3>4 DEF Pages!Next
    <2> QED BY <2>4, <2>5
  <1>4. CASE cmd.op = "erase" /\ pc = "erase_app_wait"
    <2>1. /\ ~Rewriting /\ ~Rewriting' /\ Call = "wipe" /\ Call' = "wipe" /\ configured
      BY <1>1, <1>4 DEF Rewriting, Call, Shape, Arguments
    <2> PICK row \in AppRow .. NumRows - 1 : CommandRow = RowOf(row)
      BY <1>4, CommandPlace DEF Shape
    <2>2. ASSUME NEW q \in PageIds
          PROVE  ContentOf(q)' = IF root_page(q) = row THEN Bits ELSE ContentOf(q)
      <3>1. Place(q) \in Page /\ (Place(q) \in RowOf(row) <=> root_page(q) = row)
        BY PageIdFacts, RowOfPlace
      <3>2. flash'[Place(q)] = IF root_page(q) = row THEN Bits ELSE flash[Place(q)]
        BY <1>4, <3>1 DEF Finish, Erased
      <3> QED BY <1>1, <1>4, <2>1, <3>2 DEF ContentOf, InCache
    <2>3. CASE \E first \in PageIds : root_page(first) = row
      <3> PICK first \in PageIds : root_page(first) = row
        BY <2>3
      <3>1. Kept' = [q \in PageIds |-> IF Roots[q] = Roots[first] THEN Bits ELSE Kept[q]]
        BY <2>2, RowsOfPages DEF Kept
      <3>2. Pages!WipeRow
        BY <1>1, <2>1, <3>1 DEF Pages!WipeRow
      <3> QED BY <3>2 DEF Pages!Next
    <2>4. CASE ~\E first \in PageIds : root_page(first) = row
      BY <1>1, <2>1, <2>2, <2>4, KeptPages DEF Pages!vars
    <2> QED BY <2>3, <2>4
  <1> QED BY <1>1, <1>2, <1>3, <1>4 DEF Shape, Commands

(* What a failure of power changes lies in one row: that which is being    *)
(* rewritten, or the controller's.                                         *)
LEMMA FailureInOneRow ==
    ASSUME StoreInv, PowerLoss
    PROVE  \E row \in Nat : \A q \in PageIds :
               ContentOf(q)' # ContentOf(q) => root_page(q) = row
  <1> USE DEF device, args, history, nvm_is_ready, StoreInv, FlashInv
  <1>1. \A q \in PageIds : ContentOf(q)' = flash'[Place(q)]
    BY DEF PowerLoss, Return, NoCommand, ContentOf, InCache, Rewriting
  <1>2. /\ cmd.op \in {"none", "erase", "program"}
        /\ \A q \in PageIds : Place(q) \in Page /\ root_page(q) \in Nat
    BY PageIdFacts, GeometryAssumption DEF Shape, TypeOK
  <1>3. CASE Rewriting
    <2>1. page \in PageIds /\ root_page(page) = page /\ page \in Nat
      BY <1>3, RowPlaces DEF Rewriting, Updating, Loaded
    <2>2. ASSUME NEW q \in PageIds, root_page(q) # page PROVE ContentOf(q)' = ContentOf(q)
      <3>1. cmd.op \in {"none", "program"} /\ ~InCache(q)
        BY <1>2, <1>3, <2>2 DEF InCache, Rewriting, Shape, Commands
      <3>2. CASE cmd.op = "none"
        BY <1>1, <1>2, <3>1, <3>2, FlashChange DEF ContentOf, Next
      <3>3. CASE cmd.op = "program"
        <4>1. /\ pc = "write" /\ cmd.page = Root + (i - 1) /\ i > 0
              /\ i - 1 \in 0 .. RowPages - 1
          BY <1>3, <3>3, RowPlaces DEF Rewriting, Shape, Commands, Updating, Loaded
        <4>2. Place(q) # cmd.page
          BY <2>1, <2>2, <4>1, SamePlace DEF Root
        <4> QED BY <1>1, <1>2, <3>1, <3>3, <4>2, FlashChange DEF ContentOf, Next
      <3> QED BY <3>1, <3>2, <3>3
    <2> QED BY <2>1, <2>2
  <1>4. CASE ~Rewriting /\ cmd.op = "none"
    <2>1. \A q \in PageIds : ContentOf(q)' = ContentOf(q)
      BY <1>1, <1>4, FlashChange DEF ContentOf, InCache, Next
    <2> QED BY <2>1
  <1>5. CASE ~Rewriting /\ cmd.op = "erase"
    <2> PICK row \in AppRow .. NumRows - 1 : CommandRow = RowOf(row)
      BY <1>5, CommandPlace DEF Shape
    <2>1. ASSUME NEW q \in PageIds, root_page(q) # row PROVE ContentOf(q)' = ContentOf(q)
      <3>1. Place(q) \notin CommandRow
        BY <2>1, RowOfPlace
      <3> QED BY <1>1, <1>2, <1>5, <3>1, FlashChange DEF ContentOf, InCache, Next
    <2>2. row \in Nat
      BY GeometryAssumption
    <2> QED BY <2>1, <2>2
  <1>6. CASE ~Rewriting /\ cmd.op = "program"
    <2>1. ASSUME NEW q \in PageIds, Place(q) # cmd.page PROVE ContentOf(q)' = ContentOf(q)
      BY <1>1, <1>2, <1>6, <2>1, FlashChange DEF ContentOf, InCache, Next
    <2>2. ASSUME NEW q \in PageIds, NEW p \in PageIds, Place(q) = Place(p)
          PROVE  root_page(q) = root_page(p)
      BY <2>2, SamePlace, PageIdFacts
    <2>3. CASE \E p \in PageIds : Place(p) = cmd.page
      <3> PICK p \in PageIds : Place(p) = cmd.page
        BY <2>3
      <3>1. root_page(p) \in Nat
        BY <1>2
      <3>2. \A q \in PageIds : ContentOf(q)' # ContentOf(q) => root_page(q) = root_page(p)
        BY <2>1, <2>2
      <3> QED BY <3>1, <3>2
    <2>4. CASE ~\E p \in PageIds : Place(p) = cmd.page
      BY <2>1, <2>4
    <2> QED BY <2>3, <2>4
  <1> QED BY <1>2, <1>3, <1>4, <1>5, <1>6

LEMMA PowerLossRefines ==
    ASSUME StoreInv, PowerLoss
    PROVE  Pages!Fail
  <1>1. Kept' \in [PageIds -> SUBSET Bits]
    <2>1. flash' \in [Page -> SUBSET Bits]
      BY ShapeDevice DEF StoreInv, FlashInv, Shape, TypeOK, Content
    <2>2. \A q \in PageIds : Place(q) \in Page /\ ContentOf(q)' = flash'[Place(q)]
      BY PageIdFacts
         DEF PowerLoss, Return, NoCommand, ContentOf, InCache, Rewriting, nvm_is_ready
    <2> QED BY <2>1, <2>2 DEF Kept
  <1>2. \A p, q \in PageIds :
            Kept'[p] # Kept[p] /\ Kept'[q] # Kept[q] => Roots[p] = Roots[q]
    BY FailureInOneRow, KeptPages, RowsOfPages
  <1>3. configured' = FALSE /\ Call' = "none" /\ page' = NoPage /\ data' = {}
    BY DEF PowerLoss, Return, Call
  <1> QED BY <1>1, <1>2, <1>3 DEF Pages!Fail, Pages!Return

LEMMA StoreStep ==
    ASSUME StoreInv, [Next]_vars
    PROVE  [Pages!Next \/ Overwrite]_Pages!vars
  <1> USE DEF device, args, history, nvm_is_ready
  <1>1. CASE ConfigNvm
    <2>1. /\ pc = "idle" /\ pc' = "idle" /\ configured' = TRUE
          /\ UNCHANGED <<flash, cmd, page, data>>
      BY <1>1 DEF ConfigNvm
    <2>2. ~Rewriting /\ ~Rewriting' /\ Call = "none" /\ Call' = "none"
      BY <2>1 DEF Rewriting, Call
    <2>3. Pages!Configure
      BY <2>1, <2>2, NothingMoves DEF Pages!Configure
    <2> QED BY <2>3 DEF Pages!Next
  <1>2. CASE PowerLoss
    BY <1>2, PowerLossRefines DEF Pages!Next
  <1>3. CASE UNCHANGED vars
    <2>1. UNCHANGED <<Kept, configured, Call, page, data>>
      BY <1>3 DEF vars, Kept, ContentOf, InCache, Rewriting, Call, Stored
    <2> QED BY <2>1 DEF Pages!vars
  <1> QED BY <1>1, <1>2, <1>3, EraseAppRefines, UpdateRefines, FinishRefines DEF Next

(* Whatever calls arrive and whenever power fails, a call of flash.c       *)
(* stores one page, once and before it returns, and leaves the others      *)
(* alone, and a failure of power loses at most one row (flash.c:25-136),   *)
(* but for what is left in a page that is put over cleared bits in a row   *)
(* the call has not erased.                                                *)
THEOREM FlashStoresPages == Spec => StoresPagesUnlessOverwriting
  <1>1. Init => Pages!Init
    <2> SUFFICES ASSUME Init PROVE Pages!Init
      OBVIOUS
    <2>1. Kept \in [PageIds -> SUBSET Bits]
      BY ShapeInit, KeptType
    <2> QED BY <2>1 DEF Init, Pages!Init, Call
  <1> QED BY <1>1, StoreInvariance, StoreStep, PTL DEF Spec, StoresPagesUnlessOverwriting
=============================================================================
