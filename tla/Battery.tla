------------------------------- MODULE Battery -------------------------------
(***************************************************************************)
(* Cartridges with save RAM, a memory that a battery keeps: the emulator    *)
(* writes it to a file when the cartridge is taken out and reads it when it *)
(* is plugged in (main.cpp, sdl.cpp), unless the file fails or the program  *)
(* is killed.  A game can write-protect it (mem.cpp).                       *)
(*                                                                         *)
(* Loading a saved state resets the machine and leaves save RAM alone, like *)
(* the reset of Cartridge.  save_active, which only decides whether the     *)
(* game reads the save RAM or the ROM beneath it, is left out.  Cartridges  *)
(* have files of different names.                                          *)
(***************************************************************************)
EXTENDS Cartridge

CONSTANTS
  Data,     \* what a save RAM may hold
  Blank,    \* what a new one holds
  Battery   \* the cartridges with one

NoFile == "none"
Torn == "torn"
Unknown == "unknown"

ASSUME BatteryAssumption ==
  /\ Blank \in Data /\ {NoFile, Torn, Unknown} \cap Data = {}
  /\ Battery \subseteq Carts

VARIABLES
  saveram,  \* saveram; meaningless without one
  prot,     \* save_prot, which outlives the cartridge
  files,    \* the files, by cartridge: their data, NoFile or Torn
  asked,    \* history: the game that is plugged in has set save_prot itself
  kept      \* history: what each game left in its save RAM; Unknown after a
            \* failure, and if a protection that was not its own drops a write

batteryVars == <<saveram, prot, files, asked, kept>>
allVars == <<cartVars, batteryVars>>

\* has_save_ram
HasSaveRam == plugged /\ cart \in Battery

BatteryInit ==
  /\ CartInit
  /\ saveram = Blank /\ prot = FALSE /\ asked = FALSE
  /\ files = [c \in Battery |-> NoFile]
  /\ kept = [c \in Battery |-> Blank]

-----------------------------------------------------------------------------
(* The game                                                                *)

\* m68k_ROM_write
WriteSaveRam(d) ==
  /\ HasSaveRam
  /\ saveram' = IF prot THEN saveram ELSE d
  /\ kept' = [kept EXCEPT ![cart] =
                CASE ~prot -> d [] prot /\ asked -> @ [] prot /\ ~asked -> Unknown]
  /\ UNCHANGED <<cartVars, prot, files, asked>>

\* A write to 0xa130f1.
Protect(p) ==
  /\ plugged
  /\ prot' = p /\ asked' = TRUE
  /\ UNCHANGED <<cartVars, saveram, files, kept>>

-----------------------------------------------------------------------------
(* The files                                                               *)

\* ram_save: the file may not open, or not take the data.
RamSave ==
  \/ ~HasSaveRam /\ UNCHANGED <<files, kept>>
  \/ HasSaveRam /\ files' = [files EXCEPT ![cart] = saveram] /\ UNCHANGED kept
  \/ /\ HasSaveRam
     /\ files' \in {files, [files EXCEPT ![cart] = Torn]}
     /\ kept' = [kept EXCEPT ![cart] = Unknown]

\* ram_load: what fread leaves when it fails is part of the file, or nothing.
RamLoad(c) ==
  \/ c \notin Battery /\ saveram' = Blank /\ UNCHANGED kept
  \/ c \in Battery /\ files[c] = NoFile /\ saveram' = Blank /\ UNCHANGED kept
  \/ c \in Battery /\ files[c] \in Data /\ saveram' = files[c] /\ UNCHANGED kept
  \/ /\ c \in Battery /\ files[c] # NoFile
     /\ saveram' \in Data
     /\ kept' = [kept EXCEPT ![c] = Unknown]

\* Plugging in, and what main and the prompt do after it.
Plug(c) ==
  /\ PlugIn(c)
  /\ RamLoad(c)
  /\ asked' = FALSE
  /\ UNCHANGED <<prot, files>>

\* Mutant: the cartridge is gone when its save RAM is to be written.
EjectUnplugsFirst ==
  /\ Unplug
  /\ saveram' = Blank /\ asked' = FALSE
  /\ UNCHANGED <<prot, files, kept>>

\* Taking the cartridge out: to load another, at the prompt or on quitting.
Eject ==
  /\ Unplug
  /\ RamSave
  /\ saveram' = Blank /\ asked' = FALSE
  /\ UNCHANGED prot

\* The program is killed: the save RAM is what it was when it was last taken
\* out.
Kill ==
  /\ Unplug
  /\ saveram' = Blank /\ asked' = FALSE /\ prot' = FALSE
  /\ kept' = IF cart \notin Battery THEN kept
             ELSE [kept EXCEPT ![cart] =
                     CASE files[cart] = NoFile -> Blank
                       [] files[cart] = Torn -> Unknown
                       [] files[cart] \in Data -> files[cart]]
  /\ UNCHANGED files

\* The program ends and is started again.
Restart ==
  /\ ~plugged
  /\ prot' = FALSE
  /\ UNCHANGED <<cartVars, saveram, files, asked, kept>>

-----------------------------------------------------------------------------
BatteryNext ==
  \/ \E d \in Data : WriteSaveRam(d)
  \/ \E p \in BOOLEAN : Protect(p)
  \/ \E c \in Carts : Plug(c)
  \/ Eject \/ Kill \/ Restart
  \/ InPlace /\ UNCHANGED batteryVars

BatterySpec == BatteryInit /\ [][BatteryNext]_allVars

-----------------------------------------------------------------------------
\* Save RAM holds what its game left there, however often the cartridge was
\* taken out and plugged in, the machine was reset and the program was started
\* again or killed in between, as long as no file failed and no protection that
\* the game of another cartridge left on dropped a write.
BatteryKeeps ==
  HasSaveRam /\ kept[cart] # Unknown => saveram = kept[cart]
=============================================================================
