-------------------------- MODULE CartridgeProofs ---------------------------
(***************************************************************************)
(* A bank shows the page its game selected, and codes leave no trace but in *)
(* the bytes they share, for every number and size of pages, contents of    *)
(* cartridges and codes.                                                    *)
(*                                                                         *)
(* Both rest on what a reset and a switch copy from: outside the patched   *)
(* addresses the copy of the ROM, or the ROM itself while there is none,   *)
(* is the cartridge.                                                       *)
(*                                                                         *)
(* Battery takes these steps and adds files to them.  That save RAM is kept *)
(* rests on what the file of a cartridge that is not plugged in holds.      *)
(***************************************************************************)
EXTENDS Battery, TLAPS

UnpluggedHasNoList == ~plugged => Patched = {}

BaseIsCartridge ==
  plugged => \A a \in Cells \ touched : Restored[a] = cart[a]

\* An offset of 0 stands for page 0 and for a bank that was never switched.
SelectionShown ==
  plugged =>
    \A b \in Banks :
      selected[b] = offset[b] \/ (offset[b] = 0 /\ selected[b] = b)

CleanHasNoCopy == clean => romCopy = Null

CartInv ==
  /\ CartTypeOK /\ UnpluggedHasNoList /\ BaseIsCartridge /\ SelectionShown
  /\ CleanHasNoCopy /\ BanksShowTheirPages /\ CodesLeaveNoTrace

-----------------------------------------------------------------------------
LEMMA StartsGrow ==
  ASSUME NEW p \in Nat, NEW q \in Nat, p < q
  PROVE  Start(p) \in Nat /\ Start(p) + PageSize <= Start(q)
<1>1. PICK r \in Nat : q = p + 1 + r
  BY CartridgeAssumption
<1>2. Start(q) = (p * PageSize) + PageSize + (r * PageSize)
  BY <1>1, CartridgeAssumption DEF Start
<1>3. r * PageSize \in Nat /\ p * PageSize \in Nat
  BY CartridgeAssumption
<1> QED
  BY <1>2, <1>3, CartridgeAssumption DEF Start

LEMMA PagesFit ==
  /\ PageSize \in Nat /\ PageSize > 0 /\ RomLen \in Nat
  /\ \A p \in PageNumbers : Start(p) \in Nat /\ Start(p) + PageSize <= RomLen
  /\ \A p \in PageNumbers, i \in 0..(PageSize - 1) : Start(p) + i \in Cells
<1>1. Pages \in Nat /\ Pages > 0 /\ PageSize \in Nat /\ PageSize > 0
  BY CartridgeAssumption
<1>2. RomLen \in Nat
  BY <1>1 DEF RomLen, Start
<1>3. \A p \in PageNumbers : Start(p) \in Nat /\ Start(p) + PageSize <= RomLen
  BY <1>1, StartsGrow DEF PageNumbers, RomLen
<1> QED
  BY <1>1, <1>2, <1>3 DEF Cells

\* Two banks have no byte in common.
LEMMA PagesApart ==
  ASSUME NEW b \in PageNumbers, NEW x \in PageNumbers, NEW i \in 0..(PageSize - 1),
         Start(x) + i \in InPage(b)
  PROVE  x = b
<1>1. b \in Nat /\ x \in Nat
  BY DEF PageNumbers
<1>2. CASE b < x
  BY <1>1, <1>2, StartsGrow, PagesFit DEF InPage
<1>3. CASE x < b
  BY <1>1, <1>3, StartsGrow, PagesFit DEF InPage
<1> QED
  BY <1>1, <1>2, <1>3

LEMMA CellsFacts ==
  /\ 0 \in Cells /\ Banks \subseteq PageNumbers /\ 0 \notin Banks
  /\ \A b \in Banks : b \in Int /\ b # 0
  /\ 0 \in PageNumbers /\ NoPatch \notin Cells
  /\ \A a \in CodeAddresses : a \in Cells /\ a + 1 \in Cells /\ a + 1 # a
                               /\ Covers(a) \subseteq Cells
<1>1. 0 \in PageNumbers
  BY CartridgeAssumption DEF PageNumbers
<1>2. 0 \in Cells
  BY <1>1, PagesFit DEF Cells
<1> QED
  BY <1>1, <1>2, PagesFit, CartridgeAssumption
  DEF Cells, Banks, PageNumbers, NoPatch, CodeAddresses, Covers

LEMMA MemoryIsNotNull ==
  ASSUME NEW f \in [Cells -> Bytes] PROVE f # Null
<1>1. DOMAIN f = Cells /\ 0 \in DOMAIN f
  BY CellsFacts
<1>2. DOMAIN Null = {}
  BY DEF Null
<1> QED
  BY <1>1, <1>2

LEMMA CartsAreMemories == \A c \in Carts : c \in [Cells -> Bytes]
BY CartridgeAssumption

LEMMA NoPatches == <<>> \in [{} -> Bytes \X Bytes] /\ DOMAIN <<>> = {}
OBVIOUS

LEMMA OwnAndNone ==
  /\ OwnPages \in [Banks -> PageNumbers] /\ NoOffsets \in [Banks -> PageNumbers]
  /\ \A b \in Banks : OwnPages[b] = b /\ NoOffsets[b] = 0
BY CellsFacts DEF OwnPages, NoOffsets

LEMMA RestoredIsMemory == CartTypeOK => Restored \in [Cells -> Bytes]
BY DEF CartTypeOK, Restored

-----------------------------------------------------------------------------
LEMMA InitEstablishes == CartInit => CartInv
<1> SUFFICES ASSUME CartInit PROVE CartInv
  OBVIOUS
<1>1. Patched = {}
  BY NoPatches DEF CartInit, Patched
<1>2. CartTypeOK
  BY <1>1, CartsAreMemories, NoPatches, OwnAndNone DEF CartInit, CartTypeOK, NoPatch
<1> QED
  BY <1>1, <1>2 DEF CartInit, CartInv, UnpluggedHasNoList, BaseIsCartridge,
     SelectionShown, CleanHasNoCopy, BanksShowTheirPages, CodesLeaveNoTrace

LEMMA PlugInKeeps ==
  ASSUME CartInv, NEW c \in Carts, PlugIn(c) PROVE CartInv'
<1>1. c \in [Cells -> Bytes]
  BY CartsAreMemories
<1>2. Patched = {} /\ Patched' = {}
  BY DEF CartInv, UnpluggedHasNoList, PlugIn, Patched, listVars
<1>3. CartTypeOK'
  BY <1>1, <1>2, OwnAndNone
  DEF CartInv, CartTypeOK, PlugIn, listVars, Patched
<1>4. BaseIsCartridge'
  BY DEF PlugIn, BaseIsCartridge, Restored
<1>5. SelectionShown' /\ BanksShowTheirPages'
  BY OwnAndNone DEF PlugIn, SelectionShown, BanksShowTheirPages
<1>6. CodesLeaveNoTrace'
  BY <1>2 DEF PlugIn, CodesLeaveNoTrace
<1> QED
  BY <1>2, <1>3, <1>4, <1>5, <1>6
  DEF CartInv, PlugIn, UnpluggedHasNoList, CleanHasNoCopy

LEMMA UnplugKeeps == ASSUME CartInv, Unplug PROVE CartInv'
<1>1. Patched' = {}
  BY NoPatches DEF Unplug, Patched
<1>2. CartTypeOK'
  BY <1>1, CartsAreMemories, NoPatches, OwnAndNone
  DEF CartInv, CartTypeOK, Unplug, Patched
<1> QED
  BY <1>1, <1>2 DEF CartInv, Unplug, UnpluggedHasNoList, BaseIsCartridge,
     SelectionShown, CleanHasNoCopy, BanksShowTheirPages, CodesLeaveNoTrace

LEMMA ResetKeeps == ASSUME CartInv, ResetCart PROVE CartInv'
<1>1. Patched' = Patched /\ Covered' = Covered
  BY DEF ResetCart, listVars, Patched, Covered
<1>2. CartTypeOK'
  BY <1>1, RestoredIsMemory, OwnAndNone
  DEF CartInv, CartTypeOK, ResetCart, listVars, Patched
<1>3. BaseIsCartridge'
  BY DEF CartInv, BaseIsCartridge, ResetCart, Restored
<1>4. SelectionShown'
  BY OwnAndNone DEF SelectionShown, ResetCart
<1>5. BanksShowTheirPages'
  <2>1. ASSUME NEW b \in Banks, NEW i \in 0..(PageSize - 1), Start(b) + i \notin touched
        PROVE  rom'[Start(b) + i] = cart[Start(b) + i]
    BY <2>1, CellsFacts, PagesFit DEF ResetCart, CartInv, BaseIsCartridge
  <2> QED
    BY <2>1, OwnAndNone DEF ResetCart, BanksShowTheirPages
<1>6. CodesLeaveNoTrace'
  BY <1>1 DEF CartInv, CodesLeaveNoTrace, CleanHasNoCopy, ResetCart, Restored,
     listVars
<1> QED
  BY <1>1, <1>2, <1>3, <1>4, <1>5, <1>6
  DEF CartInv, ResetCart, UnpluggedHasNoList, CleanHasNoCopy

LEMMA SelectKeeps ==
  ASSUME CartInv, NEW b \in Banks, NEW p \in PageNumbers, SelectPage(b, p)
  PROVE CartInv'
<1>1. Patched' = Patched /\ Covered' = Covered /\ plugged
  BY DEF SelectPage, listVars, Patched, Covered
<1>2. CASE offset[b] = p
  <2>1. CartTypeOK'
    BY <1>1, <1>2 DEF CartInv, CartTypeOK, SelectPage, listVars, Patched
  <2>2. BaseIsCartridge'
    BY <1>2 DEF CartInv, BaseIsCartridge, SelectPage, Restored
  <2>3. \A x \in Banks : selected'[x] # 0 => selected'[x] = selected[x]
    BY <1>1, <1>2, CellsFacts DEF CartInv, CartTypeOK, SelectionShown, SelectPage
  <2>4. SelectionShown'
    BY <1>1, <1>2, CellsFacts DEF CartInv, CartTypeOK, SelectionShown, SelectPage
  <2>5. BanksShowTheirPages'
    BY <1>1, <1>2, <2>3 DEF CartInv, BanksShowTheirPages, SelectPage
  <2> QED
    BY <1>1, <1>2, <2>1, <2>2, <2>4, <2>5 DEF CartInv, SelectPage, listVars,
       UnpluggedHasNoList, CleanHasNoCopy, CodesLeaveNoTrace
<1>3. CASE offset[b] # p
  <2>1. Restored \in [Cells -> Bytes] /\ Restored # Null
    BY RestoredIsMemory, MemoryIsNotNull DEF CartInv
  <2>2. b \in PageNumbers
    BY CellsFacts
  <2>3. /\ romCopy' = Restored /\ Restored' = Restored
        /\ rom' = [a \in Cells |-> IF a \in InPage(b)
                                     THEN Restored[(a - Start(b)) + Start(p)] ELSE rom[a]]
    BY <1>3, <2>1 DEF SelectPage, Restored
  <2>4. \A a \in Cells : a \in InPage(b) => (a - Start(b)) + Start(p) \in Cells
    BY <2>2, PagesFit DEF InPage, Cells
  <2>5. rom' \in [Cells -> Bytes]
    BY <2>1, <2>3, <2>4 DEF CartInv, CartTypeOK
  <2>6. CartTypeOK'
    BY <1>1, <1>3, <2>1, <2>3, <2>5
    DEF CartInv, CartTypeOK, SelectPage, listVars, Patched
  <2>7. BaseIsCartridge'
    BY <2>3 DEF CartInv, BaseIsCartridge, SelectPage
  <2>8. SelectionShown'
    BY <1>3 DEF CartInv, CartTypeOK, SelectionShown, SelectPage
  <2>9. BanksShowTheirPages'
    <3> SUFFICES ASSUME NEW x \in Banks, NEW i \in 0..(PageSize - 1), selected'[x] # 0,
                        Start(x) + i \notin touched, Start(selected'[x]) + i \notin touched
                 PROVE  rom'[Start(x) + i] = cart[Start(selected'[x]) + i]
      BY <1>1 DEF BanksShowTheirPages, SelectPage
    <3>0. x \in PageNumbers /\ Start(x) + i \in Cells
      BY CellsFacts, PagesFit
    <3>1. CASE x = b
      <4>1. selected'[x] = p
        BY <3>1 DEF CartInv, CartTypeOK, SelectPage
      <4>2. Start(x) + i \in InPage(b) /\ ((Start(x) + i) - Start(b)) + Start(p) = Start(p) + i
        BY <3>1, <2>2, PagesFit DEF InPage
      <4>3. rom'[Start(x) + i] = Restored[Start(p) + i]
        BY <2>3, <3>0, <4>2
      <4>4. Start(p) + i \in Cells
        BY PagesFit
      <4> QED
        BY <1>1, <4>1, <4>3, <4>4 DEF CartInv, BaseIsCartridge
    <3>2. CASE x # b
      <4>1. selected'[x] = selected[x]
        BY <3>2 DEF CartInv, CartTypeOK, SelectPage
      <4>2. Start(x) + i \notin InPage(b)
        BY <3>0, <3>2, <2>2, PagesApart
      <4>3. rom'[Start(x) + i] = rom[Start(x) + i]
        BY <2>3, <3>0, <4>2
      <4> QED
        BY <1>1, <4>1, <4>3 DEF CartInv, BanksShowTheirPages
    <3> QED
      BY <3>1, <3>2
  <2> QED
    BY <1>1, <1>3, <2>6, <2>7, <2>8, <2>9 DEF CartInv, SelectPage,
       UnpluggedHasNoList, CleanHasNoCopy, CodesLeaveNoTrace
<1> QED
  BY <1>2, <1>3

\* A code writes its two bytes and no other.
LEMMA PutFacts ==
  ASSUME CartTypeOK, NEW a \in CodeAddresses, NEW hi \in Bytes, NEW lo \in Bytes
  PROVE  /\ Put(a, hi, lo) \in [Cells -> Bytes]
         /\ Put(a, hi, lo)[a] = hi /\ Put(a, hi, lo)[a + 1] = lo
         /\ \A c \in Cells \ Covers(a) : Put(a, hi, lo)[c] = rom[c]
<1>1. a \in Cells /\ a + 1 \in Cells /\ a + 1 # a
  BY CellsFacts
<1> QED
  BY <1>1 DEF CartTypeOK, Put, Covers

LEMMA ApplyKeeps ==
  ASSUME CartInv, NEW a \in CodeAddresses, NEW hi \in Bytes, NEW lo \in Bytes,
         Apply(a, hi, lo)
  PROVE CartInv'
<1>0. CartTypeOK /\ plugged /\ a \notin Patched /\ rom' = Put(a, hi, lo)
      /\ UNCHANGED <<plugged, cart, romCopy, offset, selected, clean>>
  BY DEF CartInv, Apply
<1>1. Patched' = Patched \cup {a} /\ Covered' = Covered \cup Covers(a)
  BY DEF Apply, Saved, Patched, Covered
<1>2. a \in Cells /\ a + 1 \in Cells /\ Covers(a) \subseteq Cells /\ a + 1 # a
  BY CellsFacts
<1>3. rom' \in [Cells -> Bytes] /\ \A c \in Cells \ Covers(a) : rom'[c] = rom[c]
  BY <1>0, PutFacts
<1>4. touched' = touched \cup Covers(a) /\ muddled' = muddled \cup (Covers(a) \cap Covered)
  BY DEF Apply
<1>5. saved' = [x \in Patched \cup {a} |-> IF x = a THEN <<rom[a], rom[a + 1]>> ELSE saved[x]]
  BY DEF Apply, Saved
<1>6. CartTypeOK'
  <2>1. saved' \in [Patched' -> Bytes \X Bytes]
    BY <1>0, <1>1, <1>2, <1>5 DEF CartTypeOK
  <2>2. head' \in Patched' \cup {NoPatch}
    BY <1>1 DEF Apply
  <2>3. \A x \in Patched' : Covers(x) \subseteq touched'
    BY <1>0, <1>1, <1>4 DEF CartTypeOK
  <2>4. muddled' \subseteq touched' /\ touched' \subseteq Cells
    BY <1>0, <1>2, <1>4 DEF CartTypeOK
  <2> QED
    BY <1>0, <1>1, <1>3, <2>1, <2>2, <2>3, <2>4 DEF CartTypeOK
<1>7. BaseIsCartridge'
  BY <1>0, <1>3, <1>4 DEF CartInv, BaseIsCartridge, Restored
<1>8. SelectionShown'
  BY <1>0 DEF CartInv, SelectionShown
<1>9. BanksShowTheirPages'
  <2>1. \A b \in Banks, i \in 0..(PageSize - 1) : Start(b) + i \in Cells
    BY CellsFacts, PagesFit
  <2> QED
    BY <1>0, <1>3, <1>4, <2>1 DEF CartInv, BanksShowTheirPages
<1>10. ASSUME clean' PROVE CodesLeaveNoTrace'
  <2>1. \A c \in Cells \ (muddled \cup Covered) : rom[c] = cart[c]
    BY <1>0, <1>10 DEF CartInv, CodesLeaveNoTrace
  <2>2. \A c \in Cells \ (muddled' \cup Covered') : rom'[c] = cart[c]
    BY <1>1, <1>3, <1>4, <2>1
  <2>3. ASSUME NEW x \in Patched'
        PROVE  /\ x \notin muddled' => saved'[x][1] = cart[x]
               /\ x + 1 \notin muddled' => saved'[x][2] = cart[x + 1]
    <3>1. CASE x = a
      <4>1. saved'[x] = <<rom[a], rom[a + 1]>>
        BY <1>5, <3>1
      <4>2. a \in Covers(a) /\ a + 1 \in Covers(a)
        BY DEF Covers
      <4> QED
        BY <1>2, <1>4, <2>1, <3>1, <4>1, <4>2
    <3>2. CASE x # a
      <4>1. x \in Patched /\ saved'[x] = saved[x]
        BY <1>1, <1>5, <3>2
      <4> QED
        BY <1>0, <1>4, <1>10, <4>1 DEF CartInv, CodesLeaveNoTrace
    <3> QED
      BY <3>1, <3>2
  <2> QED
    BY <1>0, <2>2, <2>3 DEF CodesLeaveNoTrace
<1>11. CodesLeaveNoTrace'
  BY <1>10 DEF CodesLeaveNoTrace
<1> QED
  BY <1>0, <1>6, <1>7, <1>8, <1>9, <1>11
  DEF CartInv, UnpluggedHasNoList, CleanHasNoCopy

LEMMA RevertKeeps ==
  ASSUME CartInv, NEW a \in CodeAddresses, Revert(a) PROVE CartInv'
<1>0. /\ CartTypeOK /\ plugged /\ a \in Patched
      /\ rom' = Put(a, saved[a][1], saved[a][2])
      /\ UNCHANGED <<plugged, cart, romCopy, offset, selected, touched, muddled>>
  BY DEF CartInv, Revert
<1>1. saved[a][1] \in Bytes /\ saved[a][2] \in Bytes /\ Covers(a) \subseteq touched
  BY <1>0 DEF CartTypeOK
<1>2. /\ rom' \in [Cells -> Bytes] /\ \A c \in Cells \ Covers(a) : rom'[c] = rom[c]
      /\ rom'[a] = saved[a][1] /\ rom'[a + 1] = saved[a][2]
  BY <1>0, <1>1, PutFacts
<1>3. BaseIsCartridge'
  BY <1>0, <1>1, <1>2 DEF CartInv, BaseIsCartridge, Restored
<1>4. SelectionShown'
  BY <1>0 DEF CartInv, SelectionShown
<1>5. BanksShowTheirPages'
  <2>1. \A b \in Banks, i \in 0..(PageSize - 1) : Start(b) + i \in Cells
    BY CellsFacts, PagesFit
  <2> QED
    BY <1>0, <1>1, <1>2, <2>1 DEF CartInv, BanksShowTheirPages
<1>6. /\ Patched' \subseteq Patched /\ \A x \in Patched' : saved'[x] = saved[x]
      /\ clean' => clean /\ Patched' = Patched \ {a}
      /\ saved' \in [Patched' -> Bytes \X Bytes] /\ head' \in Patched' \cup {NoPatch}
      /\ clean' \in BOOLEAN
  <2>1. CASE a = head
    <3>1. Patched' = {} /\ saved' = <<>> /\ head' = NoPatch
      BY <2>1, NoPatches DEF Revert, Patched
    <3>2. clean' = (clean /\ Patched = {a})
      BY <2>1 DEF Revert
    <3>3. clean' \in BOOLEAN
      BY <3>2, Zenon
    <3> QED
      BY <3>1, <3>2, <3>3, NoPatches
  <2>2. CASE a # head
    <3>1. Patched' = Patched \ {a} /\ saved' = [x \in Patched \ {a} |-> saved[x]]
          /\ UNCHANGED <<head, clean>>
      BY <2>2 DEF Revert, Patched
    <3> QED
      BY <1>0, <2>2, <3>1 DEF CartTypeOK
  <2> QED
    BY <2>1, <2>2
<1>7. CartTypeOK'
  <2>1. /\ Patched' \subseteq CodeAddresses /\ \A x \in Patched' : Covers(x) \subseteq touched'
    BY <1>0, <1>6 DEF CartTypeOK
  <2> QED
    BY <1>0, <1>2, <1>6, <2>1 DEF CartTypeOK
<1>8. ASSUME clean' PROVE CodesLeaveNoTrace'
  <2>1. Covered = Covered' \cup Covers(a)
    BY <1>0, <1>6, <1>8 DEF Covered
  <2>2. ASSUME NEW c \in Cells, c \notin muddled, c \notin Covered'
        PROVE  rom'[c] = cart[c]
    <3>1. CASE c \in Covers(a)
      BY <1>0, <1>2, <1>6, <1>8, <2>2, <3>1 DEF CartInv, CodesLeaveNoTrace, Covers
    <3>2. CASE c \notin Covers(a)
      BY <1>0, <1>2, <1>6, <1>8, <2>1, <2>2, <3>2 DEF CartInv, CodesLeaveNoTrace
    <3> QED
      BY <3>1, <3>2
  <2> QED
    BY <1>0, <1>6, <1>8, <2>2 DEF CartInv, CodesLeaveNoTrace
<1>9. CodesLeaveNoTrace'
  BY <1>8 DEF CodesLeaveNoTrace
<1> QED
  BY <1>0, <1>3, <1>4, <1>5, <1>6, <1>7, <1>9
  DEF CartInv, UnpluggedHasNoList, CleanHasNoCopy

-----------------------------------------------------------------------------
LEMMA CartInvAlways == CartSpec => []CartInv
<1>1. CartInv /\ [CartNext]_cartVars => CartInv'
  <2> SUFFICES ASSUME CartInv, [CartNext]_cartVars PROVE CartInv'
    OBVIOUS
  <2>1. CASE UNCHANGED cartVars
    BY <2>1 DEF CartInv, CartTypeOK, UnpluggedHasNoList, BaseIsCartridge,
       SelectionShown, CleanHasNoCopy, BanksShowTheirPages, CodesLeaveNoTrace,
       Restored, Patched, Covered, cartVars
  <2>2. CASE CartNext
    BY <2>2, PlugInKeeps, UnplugKeeps, ResetKeeps, SelectKeeps, ApplyKeeps,
       RevertKeeps DEF CartNext, InPlace
  <2> QED
    BY <2>1, <2>2
<1> QED
  BY <1>1, InitEstablishes, PTL DEF CartSpec

\* Every code on the list lies inside the ROM, both its bytes count as patched,
\* and the element the list begins with is on it (md::patch, SelectPage).
THEOREM CartTypeCorrect == CartSpec => []CartTypeOK
<1>1. CartInv => CartTypeOK
  BY DEF CartInv
<1> QED
  BY <1>1, CartInvAlways, PTL

\* Switched banks show the pages selected for them, through every order of
\* switches, resets, codes and changes of the cartridge.
THEOREM BanksShowTheirPagesAlways == CartSpec => []BanksShowTheirPages
<1>1. CartInv => BanksShowTheirPages
  BY DEF CartInv
<1> QED
  BY <1>1, CartInvAlways, PTL

\* Outside the bytes that two codes on the list had in common, what the list
\* holds is the cartridge's, and so is the ROM where no code is: for every ROM,
\* every address of a code, odd ones included, and every order of entering and
\* reverting them, while no bank is switched and no element is lost (md::patch).
THEOREM CodesLeaveNoTraceAlways == CartSpec => []CodesLeaveNoTrace
<1>1. CartInv => CodesLeaveNoTrace
  BY DEF CartInv
<1> QED
  BY <1>1, CartInvAlways, PTL
-----------------------------------------------------------------------------
(* Save RAM                                                                *)

\* Files and save RAM change along with a step of the cartridge, or none.
THEOREM BatteryImplementsCartridge == BatterySpec => CartSpec
<1>1. BatteryInit => CartInit
  BY DEF BatteryInit
<1>2. [BatteryNext]_allVars => [CartNext]_cartVars
  BY DEF BatteryNext, allVars, WriteSaveRam, Protect, Plug, Eject, Kill,
     Restart, CartNext
<1> QED
  BY <1>1, <1>2, PTL DEF BatterySpec, CartSpec

BatteryTypeOK ==
  /\ saveram \in Data
  /\ files \in [Battery -> Data \cup {NoFile, Torn}]
  /\ kept \in [Battery -> Data \cup {Unknown}]

\* What a cartridge finds in its file.
Filed(c) == IF files[c] = NoFile THEN Blank ELSE files[c]

FilesHoldTheRest ==
  \A c \in Battery :
    kept[c] # Unknown /\ ~(plugged /\ cart = c) => kept[c] = Filed(c)

BatteryInv == BatteryTypeOK /\ FilesHoldTheRest /\ BatteryKeeps

LEMMA BatteryInvKept ==
  ASSUME BatteryInv, [BatteryNext]_allVars PROVE BatteryInv'
<1> USE BatteryAssumption DEF BatteryInv, BatteryTypeOK, FilesHoldTheRest,
        BatteryKeeps, Filed, HasSaveRam, NoFile, Torn, Unknown
<1>1. CASE UNCHANGED allVars
  BY <1>1 DEF allVars, cartVars, batteryVars
<1>2. ASSUME NEW d \in Data, WriteSaveRam(d) PROVE BatteryInv'
  BY <1>2 DEF WriteSaveRam, cartVars
<1>3. ASSUME NEW p \in BOOLEAN, Protect(p) PROVE BatteryInv'
  BY <1>3 DEF Protect, cartVars
<1>4. ASSUME NEW c \in Carts, Plug(c) PROVE BatteryInv'
  BY <1>4 DEF Plug, PlugIn, RamLoad
<1>5. ASSUME Eject PROVE BatteryInv'
  BY <1>5 DEF Eject, Unplug, RamSave
<1>6. ASSUME Kill PROVE BatteryInv'
  BY <1>6 DEF Kill, Unplug
<1>7. ASSUME Restart PROVE BatteryInv'
  BY <1>7 DEF Restart, cartVars
<1>8. ASSUME InPlace, UNCHANGED batteryVars PROVE BatteryInv'
  <2>1. plugged' = plugged /\ cart' = cart
    BY <1>8 DEF InPlace, ResetCart, SelectPage, Apply, Revert
  <2> QED
    BY <1>8, <2>1 DEF batteryVars
<1> QED
  BY <1>1, <1>2, <1>3, <1>4, <1>5, <1>6, <1>7, <1>8 DEF BatteryNext

\* Whatever save RAM may hold and however many cartridges there are, none loses
\* what its game left there but to a failed file or a protection it inherited.
THEOREM BatteryKeepsAlways == BatterySpec => []BatteryKeeps
<1>1. BatteryInit => BatteryInv
  BY BatteryAssumption DEF BatteryInit, BatteryInv, BatteryTypeOK,
     FilesHoldTheRest, BatteryKeeps, Filed, HasSaveRam, CartInit
<1>2. BatteryInv /\ [BatteryNext]_allVars => BatteryInv'
  BY BatteryInvKept
<1>3. BatteryInv => BatteryKeeps
  BY DEF BatteryInv
<1> QED
  BY <1>1, <1>2, <1>3, PTL DEF BatterySpec

(* Saving, killing and restarting the program leave every bank on its page,  *)
(* and no more of a code behind than the bytes it shared with another.       *)
THEOREM BatteryKeepsCartridge ==
  BatterySpec => [](CartTypeOK /\ BanksShowTheirPages /\ CodesLeaveNoTrace)
BY BatteryImplementsCartridge, CartTypeCorrect, BanksShowTheirPagesAlways,
   CodesLeaveNoTraceAlways, PTL
=============================================================================
