----------------------------- MODULE Cartridge ------------------------------
(***************************************************************************)
(* The cartridge (md.cpp, mem.cpp): plugging it in and out, the banks a    *)
(* game switches by copying pages over the ROM in memory, the codes a      *)
(* player patches the ROM with and reverts by entering them again, and the *)
(* reset that is part of most of these.                                    *)
(*                                                                         *)
(* Memory is in bytes, and a code replaces two of them, at any address.    *)
(* Carts hold all their pages, and a game selects one of them: what is     *)
(* copied from behind a shorter ROM is undefined.  Patches of RAM, which   *)
(* the game overwrites and a reset clears, are left out.  Save RAM is in   *)
(* Battery.                                                                *)
(***************************************************************************)
EXTENDS Integers

CONSTANTS Pages,    \* pages of a cartridge, 10 in the largest there is
          PageSize, \* bytes of a page (512 K)
          Windows,  \* pages of the address space (8)
          Bytes,    \* what a byte may hold
          Carts     \* the contents of cartridges

Start(p) == p * PageSize
RomLen == Start(Pages)
Cells == 0..(RomLen - 1)
PageNumbers == 0..(Pages - 1)
Banks == 1..(Windows - 1)  \* page 0 is not switched

ASSUME CartridgeAssumption ==
  /\ Pages \in Nat /\ PageSize \in Nat \ {0} /\ Windows \in 1..Pages
  /\ Carts \subseteq [Cells -> Bytes] /\ Carts # {}

VARIABLES
  plugged,    \* rom # no_rom
  cart,       \* history: the contents of the cartridge's file
  rom,        \* rom; meaningless without a cartridge, like cart
  romCopy,    \* romCopy, Null until a bank is switched
  offset,     \* rom_bank_offsets
  saved,      \* patch_elem: the two bytes it holds for the addresses on it
  head,       \* the address of its first element
  selected,   \* history: the page the game last selected for a bank
  touched,    \* history: bytes patched since the cartridge is in
  muddled,    \* history: bytes that two codes on the list had in common
  clean       \* history: no bank was switched and no element lost since then

cartVars == <<plugged, cart, rom, romCopy, offset, saved, head, selected, touched,
              muddled, clean>>
listVars == <<saved, head>>

Null == <<>>
NoPatch == -1
Patched == DOMAIN saved

\* The addresses a code may have, odd ones included, and the bytes it replaces.
CodeAddresses == 0..(RomLen - 2)
Covers(a) == {a, a + 1}
Covered == UNION {Covers(a) : a \in Patched}

OwnPages == [b \in Banks |-> b]
NoOffsets == [b \in Banks |-> 0]

CartInit ==
  /\ plugged = FALSE /\ cart \in Carts /\ rom = cart
  /\ romCopy = Null /\ offset = NoOffsets
  /\ saved = <<>> /\ head = NoPatch
  /\ selected = OwnPages /\ touched = {} /\ muddled = {} /\ clean = TRUE

-----------------------------------------------------------------------------
(* md::load and md::unplug: the prompt and main unplug before they load, a  *)
(* load that fails leaves the machine without a cartridge.                  *)

\* plug_in, whose reset finds no copy to restore.
PlugIn(c) ==
  /\ ~plugged
  /\ plugged' = TRUE /\ cart' = c /\ rom' = c
  /\ romCopy' = Null /\ offset' = NoOffsets
  /\ selected' = OwnPages /\ touched' = {} /\ muddled' = {} /\ clean' = TRUE
  /\ UNCHANGED listVars

\* unplug.  Its reset restores the copy of the cartridge that is gone over the
\* constant no_rom, which is in place by then; what that does is undefined, and
\* rom means nothing here without a cartridge.
Unplug ==
  /\ plugged
  /\ plugged' = FALSE /\ rom' = cart
  /\ romCopy' = Null /\ offset' = NoOffsets
  /\ saved' = <<>> /\ head' = NoPatch
  /\ selected' = OwnPages /\ touched' = {} /\ muddled' = {} /\ clean' = TRUE
  /\ UNCHANGED cart

Restored == IF romCopy # Null THEN romCopy ELSE rom

\* Mutant: the offsets outlive a reset.
ResetKeepsOffsets ==
  /\ plugged
  /\ rom' = Restored /\ romCopy' = Null
  /\ selected' = OwnPages
  /\ UNCHANGED <<plugged, cart, offset, listVars, touched, muddled, clean>>

ResetCart ==
  /\ plugged
  /\ rom' = Restored /\ romCopy' = Null
  /\ offset' = NoOffsets /\ selected' = OwnPages
  /\ UNCHANGED <<plugged, cart, listVars, touched, muddled, clean>>

-----------------------------------------------------------------------------
(* A write to 0xa130f3-0xa130ff                                             *)

InPage(p) == Start(p)..(Start(p) + PageSize - 1)

SelectPage(b, p) ==
  /\ plugged
  /\ selected' = [selected EXCEPT ![b] = p]
  /\ IF offset[b] = p
       THEN UNCHANGED <<rom, romCopy, offset, clean>>
       ELSE /\ offset' = [offset EXCEPT ![b] = p]
            /\ romCopy' = Restored
            /\ rom' = [a \in Cells |->
                         IF a \in InPage(b)
                           THEN Restored[(a - Start(b)) + Start(p)] ELSE rom[a]]
            /\ clean' = FALSE
  /\ UNCHANGED <<plugged, cart, listVars, touched, muddled>>

-----------------------------------------------------------------------------
(* md::patch, for one code.  Only the first element of the list is told     *)
(* apart from the others: reverting it drops the whole list.                *)

Put(a, hi, lo) == [rom EXCEPT ![a] = hi, ![a + 1] = lo]

\* Mutant: the bytes are saved after they were overwritten.
SavedAfter(a, hi, lo) ==
  [x \in Patched \cup {a} |-> IF x = a THEN <<hi, lo>> ELSE saved[x]]
Saved(a, hi, lo) ==
  [x \in Patched \cup {a} |-> IF x = a THEN <<rom[a], rom[a + 1]>> ELSE saved[x]]

\* The list is searched for the very address: codes at neighbouring ones share
\* a byte, which the later code saves as the earlier one left it.
Apply(a, hi, lo) ==
  /\ plugged /\ a \notin Patched
  /\ saved' = Saved(a, hi, lo) /\ head' = a
  /\ rom' = Put(a, hi, lo)
  /\ touched' = touched \cup Covers(a)
  /\ muddled' = muddled \cup (Covers(a) \cap Covered)
  /\ UNCHANGED <<plugged, cart, romCopy, offset, selected, clean>>

Revert(a) ==
  /\ plugged /\ a \in Patched
  /\ rom' = Put(a, saved[a][1], saved[a][2])
  /\ IF a = head
       THEN /\ saved' = <<>> /\ head' = NoPatch
            /\ clean' = (clean /\ Patched = {a})
       ELSE /\ saved' = [x \in Patched \ {a} |-> saved[x]]
            /\ UNCHANGED <<head, clean>>
  /\ UNCHANGED <<plugged, cart, romCopy, offset, selected, touched, muddled>>

-----------------------------------------------------------------------------
InPlace ==
  \/ ResetCart
  \/ \E b \in Banks, p \in PageNumbers : SelectPage(b, p)
  \/ \E a \in CodeAddresses, hi, lo \in Bytes : Apply(a, hi, lo)
  \/ \E a \in CodeAddresses : Revert(a)

CartNext ==
  \/ \E c \in Carts : PlugIn(c)
  \/ Unplug
  \/ InPlace

CartSpec == CartInit /\ [][CartNext]_cartVars

-----------------------------------------------------------------------------
(* Properties                                                               *)

CartTypeOK ==
  /\ plugged \in BOOLEAN /\ clean \in BOOLEAN
  /\ cart \in Carts /\ rom \in [Cells -> Bytes]
  /\ romCopy # Null => romCopy \in [Cells -> Bytes]
  /\ offset \in [Banks -> PageNumbers] /\ selected \in [Banks -> PageNumbers]
  /\ Patched \subseteq CodeAddresses /\ saved \in [Patched -> Bytes \X Bytes]
  /\ \A a \in Patched : Covers(a) \subseteq touched
  /\ muddled \subseteq touched /\ touched \subseteq Cells
  /\ head \in Patched \cup {NoPatch}

\* A bank shows the page its game selected, and its own page after a reset or
\* in a new cartridge, whatever was switched, reset and unplugged before.  Not
\* so for page 0: a bank that was never switched ignores it, as its offset is
\* 0 already; nor for bytes that a code has patched, here or in that page.
BanksShowTheirPages ==
  plugged =>
    \A b \in Banks, i \in 0..(PageSize - 1) :
      LET here == Start(b) + i
          there == Start(selected[b]) + i
      IN  selected[b] # 0 /\ here \notin touched /\ there \notin touched
            => rom[here] = cart[there]

\* Entering codes and entering them again leaves no trace: a byte no code on
\* the list covers is the cartridge's own, and the list holds it for the
\* others.  (A switched bank or a list that lost elements breaks it.  So do
\* codes that overlap, reverted in the order they were entered: the later one
\* brings back a byte of the earlier.  But they never spoil more than the byte
\* they share.)
CodesLeaveNoTrace ==
  plugged /\ clean =>
    /\ \A a \in Cells \ (muddled \cup Covered) : rom[a] = cart[a]
    /\ \A a \in Patched :
         /\ a \notin muddled => saved[a][1] = cart[a]
         /\ a + 1 \notin muddled => saved[a][2] = cart[a + 1]

\* "Revert a previous patch": that one only, the others can be reverted later.
RevertsOnePatch ==
  [][\A a \in CodeAddresses : Revert(a) => Patched' = Patched \ {a}]_cartVars
=============================================================================
