---------------------------- MODULE CommandLine ----------------------------
(***************************************************************************)
(* Invocations of the af tool (af_cli.cpp): each is a process that loads   *)
(* af_state.bin, runs one command on its own catalog and saves the whole   *)
(* catalog when it exits.  Invocations may overlap, be killed, end in an   *)
(* exception nobody catches, and fail to write; no lock is taken.          *)
(*                                                                         *)
(* Of a catalog only the authority it was created under and the changes it *)
(* holds matter here: a change is the invocation that made it and the boot *)
(* id it was made under.  A boot id is drawn at random, hence named after  *)
(* the invocation that draws it.  What a command does to a catalog is the  *)
(* module Catalog's matter.                                                *)
(***************************************************************************)
EXTENDS Naturals, FiniteSets

CONSTANTS
  Invocations,  \* the invocations made
  NoBoot        \* the boot id of a catalog without authority

ASSUME BootAssumption == NoBoot \notin Invocations

Paths == {"af_state.bin", "elsewhere"}

Changes == [by : Invocations, under : Invocations]
Catalogs == [boot : Invocations \cup {NoBoot}, changes : SUBSET Changes]
Unborn == [boot |-> NoBoot, changes |-> {}]

(* A file is not there, holds something load refuses, or holds an image.   *)
Torn == [holds |-> "debris", catalog |-> Unborn]
Image(c) == [holds |-> "image", catalog |-> c]

VARIABLES
  at,        \* where each invocation is
  path,      \* the file each one writes
  catalog,   \* g_cat of each
  file,      \* the files
  owed,      \* changes users were told of, later recoveries taken into account
  settled,   \* changes the state file held while nothing ran
  overlapped, mangled, blind
             \* invocations overlapped; a save was cut short or written over
             \* another; an invocation found a file it could not load

vars == <<at, path, catalog, file, owed, settled, overlapped, mangled, blind>>
histories == <<owed, settled, overlapped, mangled, blind>>

Init ==
  /\ at = [p \in Invocations |-> "not begun"]
  /\ path = [p \in Invocations |-> "af_state.bin"]
  /\ catalog = [p \in Invocations |-> Unborn]
  /\ file = [f \in Paths |-> [holds |-> "nothing", catalog |-> Unborn]]
  /\ owed = {} /\ settled = {}
  /\ overlapped = FALSE /\ mangled = FALSE /\ blind = FALSE

Over == {"not begun", "ended"}
Quiet == \A p \in Invocations : at[p] \in Over
State == file["af_state.bin"]

-----------------------------------------------------------------------------
(* A slip: the authority of an earlier process is not taken up. *)
AuthorityOfItsOwn(c, p) == [c EXCEPT !.boot = p]

(* ensure_authority: a catalog without an epoch is given one. *)
EnsureAuthority(c, p) == IF c.boot = NoBoot THEN [c EXCEPT !.boot = p] ELSE c

(* The file is loaded if there is one, and what load throws is swallowed.  *)
(* Nothing was read by then: load refuses an image before its first record *)
(* or, half way, for its dependencies, and no command of the tool makes    *)
(* an artifact that depends on others (nor 2^20 artifacts).                *)
Begin(p) ==
  /\ at[p] = "not begun"
  /\ at' = [at EXCEPT ![p] = "running"]
  /\ catalog' = [catalog EXCEPT ![p] = EnsureAuthority(State.catalog, p)]
  /\ settled' = IF Quiet THEN State.catalog.changes ELSE settled
  /\ overlapped' = (overlapped \/ ~Quiet)
  /\ blind' = (blind \/ State.holds = "debris")
  /\ UNCHANGED <<path, file, owed, mangled>>

(* A slip: the process leaves without running its exit handlers. *)
ChangeAndQuit(p) ==
  LET change == [by |-> p, under |-> catalog[p].boot]
  IN  /\ at[p] = "running"
      /\ catalog' = [catalog EXCEPT ![p].changes = @ \cup {change}]
      /\ owed' = owed \cup {change}
      /\ at' = [at EXCEPT ![p] = "ended"]
      /\ UNCHANGED <<path, file, settled, overlapped, mangled, blind>>

(* publish, register, validate, promote, supersede, invalidate, retire and *)
(* benchmark, when the catalog accepts: the user is told before the save.  *)
Change(p) ==
  LET change == [by |-> p, under |-> catalog[p].boot]
  IN  /\ at[p] = "running"
      /\ catalog' = [catalog EXCEPT ![p].changes = @ \cup {change}]
      /\ owed' = owed \cup {change}
      /\ at' = [at EXCEPT ![p] = "exiting"]
      /\ UNCHANGED <<path, file, settled, overlapped, mangled, blind>>

(* validate, of an artifact that is past its validation: the catalog       *)
(* stores the verdict and then throws.  The exception is caught and        *)
(* printed, and what was changed is saved although the user was not told.  *)
RefuseHalfway(p) ==
  LET change == [by |-> p, under |-> catalog[p].boot]
  IN  /\ at[p] = "running"
      /\ catalog' = [catalog EXCEPT ![p].changes = @ \cup {change}]
      /\ at' = [at EXCEPT ![p] = "exiting"]
      /\ UNCHANGED <<path, file, histories>>

(* A command that only reads, or whose exception is caught and printed     *)
(* before it changed anything.  replay works on a catalog of its own.      *)
ReadOrRefuse(p) ==
  /\ at[p] = "running"
  /\ at' = [at EXCEPT ![p] = "exiting"]
  /\ UNCHANGED <<path, catalog, file, histories>>

(* An exception nobody catches ends the process without its exit handlers: *)
(* publish and register refused, an id that is none, a copy not written.   *)
Abort(p) ==
  /\ at[p] = "running"
  /\ at' = [at EXCEPT ![p] = "ended"]
  /\ UNCHANGED <<path, catalog, file, histories>>

Recover(p, f) ==
  /\ at[p] = "running" /\ file[f].holds = "image"
  /\ catalog' = [catalog EXCEPT ![p] = file[f].catalog]
  /\ owed' = file[f].catalog.changes
  /\ settled' = settled \cap file[f].catalog.changes
  /\ at' = [at EXCEPT ![p] = "exiting"]
  /\ UNCHANGED <<path, file, overlapped, mangled, blind>>

(* A slip: the refusal is caught and printed, as for other commands, and   *)
(* what is left of the catalog is saved.                                   *)
RecoverAnyhow(p, f) ==
  /\ at[p] = "running" /\ file[f].holds # "image"
  /\ catalog' = [catalog EXCEPT ![p].changes = {}]
  /\ at' = [at EXCEPT ![p] = "exiting"]
  /\ UNCHANGED <<path, file, histories>>

RecoverRefused(p, f) ==
  /\ at[p] = "running" /\ file[f].holds # "image"
  /\ at' = [at EXCEPT ![p] = "ended"]
  /\ UNCHANGED <<path, catalog, file, histories>>

-----------------------------------------------------------------------------
(* save_file, for the command save and at exit: the file is emptied when   *)
(* it is opened and written afterwards.                                    *)
Open(p, f) ==
  /\ \/ at[p] = "running" /\ at' = [at EXCEPT ![p] = "copying"]
     \/ at[p] = "exiting" /\ f = "af_state.bin" /\ at' = [at EXCEPT ![p] = "saving"]
  /\ path' = [path EXCEPT ![p] = f]
  /\ file' = [file EXCEPT ![f] = Torn]
  /\ UNCHANGED <<catalog, histories>>

(* An image written over another's beginning leaves the other's end, if    *)
(* that one was longer.                                                    *)
Written(f, c) ==
  {Image(c)} \cup (IF file[f].holds = "image" /\ file[f].catalog # c THEN {Torn} ELSE {})

Write(p) ==
  /\ at[p] \in {"copying", "saving"}
  /\ \E new \in Written(path[p], catalog[p]) :
       /\ file' = [file EXCEPT ![path[p]] = new]
       /\ mangled' = (mangled \/ new = Torn)
  /\ at' = [at EXCEPT ![p] = IF at[p] = "copying" THEN "exiting" ELSE "ended"]
  /\ UNCHANGED <<path, catalog, owed, settled, overlapped, blind>>

(* The disk is full or the file cannot be opened: at exit the exception is *)
(* swallowed, elsewhere nobody catches it; either way the process is over. *)
SaveFails(p) ==
  /\ at[p] \in {"exiting", "copying", "saving"}
  /\ file' = IF at[p] = "exiting" THEN file ELSE [file EXCEPT ![path[p]] = Torn]
  /\ mangled' = TRUE
  /\ at' = [at EXCEPT ![p] = "ended"]
  /\ UNCHANGED <<path, catalog, owed, settled, overlapped, blind>>

(* Until its command is done a process can be killed without harm; in the  *)
(* middle of a save it may have written part of its image.                 *)
Killed(p) ==
  /\ at[p] \notin Over
  /\ at' = [at EXCEPT ![p] = "ended"]
  /\ mangled' = (mangled \/ at[p] # "running")
  /\ \/ UNCHANGED file
     \/ at[p] \in {"copying", "saving"} /\ file' = [file EXCEPT ![path[p]] = Torn]
  /\ UNCHANGED <<path, catalog, owed, settled, overlapped, blind>>

Next ==
  \E p \in Invocations :
    \/ Begin(p) \/ Change(p) \/ RefuseHalfway(p) \/ ReadOrRefuse(p) \/ Abort(p)
    \/ \E f \in Paths : Recover(p, f) \/ RecoverRefused(p, f) \/ Open(p, f)
    \/ Write(p) \/ SaveFails(p) \/ Killed(p)

Spec == Init /\ [][Next]_vars

-----------------------------------------------------------------------------
(* A process that runs has an authority, and so has every image.           *)
TypeOK ==
  /\ at \in [Invocations -> Over \cup {"running", "exiting", "copying", "saving"}]
  /\ path \in [Invocations -> Paths]
  /\ catalog \in [Invocations -> Catalogs]
  /\ \A p \in Invocations : at[p] \notin Over => catalog[p].boot # NoBoot
  /\ \A f \in Paths : (file[f].catalog.boot # NoBoot) <=> (file[f].holds = "image")
  /\ owed \subseteq Changes /\ settled \subseteq Changes

(* The tool is stateful (af_cli.cpp:66): as long as invocations do not     *)
(* overlap and none is stopped between its command and the end of its      *)
(* save, every change a user was told of is in the state file.             *)
ChangesAreKept ==
  (Quiet /\ ~overlapped /\ ~mangled) => owed \subseteq State.catalog.changes

(* Overlapping invocations lose changes only among themselves: what the    *)
(* state file held when nothing ran stays, unless a save went wrong or an  *)
(* invocation began while another had emptied the file.                    *)
SettledChangesStay ==
  (Quiet /\ ~mangled /\ ~blind) => settled \subseteq State.catalog.changes

(* Whatever overlaps or is cut short, an image holds changes made under    *)
(* its own authority and no others: a catalog begun anew after a torn save *)
(* never takes in, or is taken into, what came before.                     *)
OneAuthority ==
  \A f \in Paths : \A change \in file[f].catalog.changes :
    change.under = file[f].catalog.boot
=============================================================================
