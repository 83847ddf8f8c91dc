------------------------- MODULE CommandLine_proofs -------------------------
(***************************************************************************)
(* For any number of invocations: an image never mixes authorities, one    *)
(* invocation at a time keeps what users were told, and overlapping ones   *)
(* lose changes only among themselves.                                     *)
(***************************************************************************)
EXTENDS CommandLine, TLAPS

FileTypes ==
  /\ file \in [Paths -> [holds : {"nothing", "debris", "image"}, catalog : Catalogs]]
  /\ \A f \in Paths : file[f].holds # "image" => file[f].catalog = Unborn
  /\ {overlapped, mangled, blind} \subseteq BOOLEAN

Types == TypeOK /\ FileTypes

OneBoot(c) == \A change \in c.changes : change.under = c.boot

(* OneAuthority, of the catalogs in memory as well as of the images.       *)
Authorities ==
  /\ \A p \in Invocations : OneBoot(catalog[p])
  /\ \A f \in Paths : OneBoot(file[f].catalog)

(* While nothing overlaps, what is owed is in the state file or on its way *)
(* there, in the hands of the only invocation that runs.                   *)
Alone == \A p, q \in Invocations : at[p] \notin Over /\ at[q] \notin Over => p = q

Writing(p) == at[p] \in {"copying", "saving"}

Carried(p) ==
  /\ at[p] \notin Over => owed \subseteq catalog[p].changes
  /\ at[p] = "running" => owed \subseteq State.catalog.changes
  /\ Writing(p) => file[path[p]] = Torn

Kept ==
  /\ \A p \in Invocations : at[p] = "saving" => path[p] = "af_state.bin"
  /\ ~overlapped => Alone
  /\ ~overlapped /\ ~mangled => \A p \in Invocations : Carried(p)
  /\ ChangesAreKept

(* What is settled is in every catalog an invocation holds and in the      *)
(* state file, unless that one is just being written.                      *)
Stays ==
  ~mangled /\ ~blind =>
    /\ \A p \in Invocations : at[p] \notin Over => settled \subseteq catalog[p].changes
    /\ State.holds # "debris" => settled \subseteq State.catalog.changes
    /\ State.holds = "debris" =>
         \E p \in Invocations : Writing(p) /\ path[p] = "af_state.bin"

-----------------------------------------------------------------------------
LEMMA PathFacts == "af_state.bin" \in Paths /\ "elsewhere" \in Paths
  BY DEF Paths

LEMMA UnbornIsCatalog == Unborn \in Catalogs /\ OneBoot(Unborn)
  BY DEF Unborn, Catalogs, OneBoot

LEMMA TornFields == Torn.holds = "debris" /\ Torn.catalog = Unborn
  BY DEF Torn

LEMMA ImageFields ==
  ASSUME NEW c
  PROVE  Image(c).holds = "image" /\ Image(c).catalog = c
  BY DEF Image

(* A catalog that is given an authority keeps its changes. *)
LEMMA Authorised ==
  ASSUME NEW c \in Catalogs, NEW p \in Invocations
  PROVE  /\ EnsureAuthority(c, p) \in Catalogs
         /\ EnsureAuthority(c, p).boot \in Invocations
         /\ EnsureAuthority(c, p).changes = c.changes
         /\ OneBoot(c) => OneBoot(EnsureAuthority(c, p))
<1>1. c = [boot |-> c.boot, changes |-> c.changes] /\ c.boot \in Invocations \cup {NoBoot}
      /\ c.changes \subseteq Changes
  BY DEF Catalogs
<1>2. CASE c.boot = NoBoot
  <2>1. EnsureAuthority(c, p) = [boot |-> p, changes |-> c.changes]
    BY <1>1, <1>2 DEF EnsureAuthority
  <2>2. OneBoot(c) => c.changes = {}
    BY <1>1, <1>2, BootAssumption DEF OneBoot, Changes
  <2> QED BY <1>1, <2>1, <2>2 DEF Catalogs, OneBoot
<1>3. CASE c.boot # NoBoot
  BY <1>1, <1>3 DEF EnsureAuthority
<1> QED BY <1>2, <1>3

(* The change a command makes. *)
LEMMA Changed ==
  ASSUME NEW c \in Catalogs, c.boot # NoBoot, NEW p \in Invocations,
         NEW change, change = [by |-> p, under |-> c.boot]
  PROVE  /\ change \in Changes
         /\ [c EXCEPT !.changes = @ \cup {change}] \in Catalogs
         /\ [c EXCEPT !.changes = @ \cup {change}].boot = c.boot
         /\ [c EXCEPT !.changes = @ \cup {change}].changes = c.changes \cup {change}
         /\ OneBoot(c) => OneBoot([c EXCEPT !.changes = @ \cup {change}])
<1>1. c = [boot |-> c.boot, changes |-> c.changes] /\ c.boot \in Invocations
      /\ c.changes \subseteq Changes
  BY DEF Catalogs
<1>2. change \in Changes /\ change.under = c.boot
  BY <1>1 DEF Changes
<1>3. [c EXCEPT !.changes = @ \cup {change}] = [boot |-> c.boot, changes |-> c.changes \cup {change}]
  BY <1>1
<1> QED BY <1>1, <1>2, <1>3 DEF Catalogs, OneBoot

LEMMA WrittenIs ==
  ASSUME NEW f, NEW c, NEW new \in Written(f, c)
  PROVE  /\ new = Image(c) \/ new = Torn
         /\ file[f] = Torn => new = Image(c)
<1>1. file[f] = Torn => file[f].holds # "image"
  BY TornFields
<1> QED BY <1>1 DEF Written

LEMMA TornIsNoImage == ASSUME NEW c PROVE Image(c) # Torn
<1>1. Image(c).holds = "image" /\ Torn.holds = "debris"
  BY ImageFields, TornFields
<1> QED BY <1>1
-----------------------------------------------------------------------------
LEMMA TypesInit == Init => Types
<1> SUFFICES ASSUME Init PROVE Types
  OBVIOUS
<1>1. Unborn.boot = NoBoot /\ Unborn \in Catalogs
  BY UnbornIsCatalog DEF Unborn
<1>2. FileTypes
  BY <1>1 DEF Init, FileTypes
<1>3. \A f \in Paths : file[f].catalog = Unborn /\ file[f].holds = "nothing"
  BY DEF Init
<1>4. "af_state.bin" \in Paths
  BY PathFacts
<1> QED BY <1>1, <1>2, <1>3, <1>4 DEF Init, Types, TypeOK, Over

(* The parts of the types that an action of one invocation can disturb:    *)
(* its place, its catalog, a file.                                         *)
LEMMA OneMoves ==
  ASSUME Types, NEW p \in Invocations, NEW place, NEW c \in Catalogs, NEW f \in Paths,
         place \in Over \cup {"running", "exiting", "copying", "saving"},
         place \notin Over => c.boot # NoBoot,
         at' = [at EXCEPT ![p] = place],
         catalog' = [catalog EXCEPT ![p] = c],
         path' = path \/ path' = [path EXCEPT ![p] = f],
         \/ file' = file
         \/ file' = [file EXCEPT ![f] = Torn]
         \/ \E d \in Catalogs : d.boot # NoBoot /\ file' = [file EXCEPT ![f] = Image(d)],
         owed' \subseteq Changes, settled' \subseteq Changes,
         {overlapped', mangled', blind'} \subseteq BOOLEAN
  PROVE  Types'
<1>1. /\ at' \in [Invocations -> Over \cup {"running", "exiting", "copying", "saving"}]
      /\ path' \in [Invocations -> Paths]
      /\ catalog' \in [Invocations -> Catalogs]
  BY DEF Types, TypeOK
<1>2. \A q \in Invocations : at'[q] \notin Over => catalog'[q].boot # NoBoot
  BY DEF Types, TypeOK
<1>3. Unborn.boot = NoBoot
  BY DEF Unborn
<1>4. /\ file' \in [Paths -> [holds : {"nothing", "debris", "image"}, catalog : Catalogs]]
      /\ \A g \in Paths : file'[g].holds # "image" => file'[g].catalog = Unborn
      /\ \A g \in Paths : (file'[g].catalog.boot # NoBoot) <=> (file'[g].holds = "image")
  <2>1. CASE file' = file
    BY <2>1 DEF Types, TypeOK, FileTypes
  <2>2. CASE file' = [file EXCEPT ![f] = Torn]
    <3>1. Torn \in [holds : {"nothing", "debris", "image"}, catalog : Catalogs]
      BY UnbornIsCatalog DEF Torn
    <3> QED BY <2>2, <3>1, <1>3, TornFields DEF Types, TypeOK, FileTypes
  <2>3. CASE \E d \in Catalogs : d.boot # NoBoot /\ file' = [file EXCEPT ![f] = Image(d)]
    <3>1. PICK d \in Catalogs : d.boot # NoBoot /\ file' = [file EXCEPT ![f] = Image(d)]
      BY <2>3
    <3>2. Image(d) \in [holds : {"nothing", "debris", "image"}, catalog : Catalogs]
      BY DEF Image
    <3> QED BY <3>1, <3>2, ImageFields DEF Types, TypeOK, FileTypes
  <2> QED BY <2>1, <2>2, <2>3
<1> QED BY <1>1, <1>2, <1>4 DEF Types, TypeOK, FileTypes

LEMMA TypesNext == Types /\ [Next]_vars => Types'
<1> SUFFICES ASSUME Types, [Next]_vars PROVE Types'
  OBVIOUS
<1>s. CASE UNCHANGED vars
  BY <1>s DEF vars, Types, TypeOK, FileTypes, Writing, State
<1>0. /\ \A p \in Invocations : catalog[p] \in Catalogs /\ catalog' = catalog => catalog' = [catalog EXCEPT ![p] = catalog[p]]
      /\ \A p \in Invocations : catalog[p] \in Catalogs
      /\ \A p \in Invocations : at[p] \notin Over => catalog[p].boot # NoBoot
      /\ \A f \in Paths : file[f].catalog \in Catalogs /\ file[f].catalog.changes \subseteq Changes
      /\ \A f \in Paths : file[f].holds = "image" => file[f].catalog.boot # NoBoot
      /\ owed \subseteq Changes /\ settled \subseteq Changes
      /\ {overlapped, mangled, blind} \subseteq BOOLEAN
  BY DEF Types, TypeOK, FileTypes, Catalogs
<1>p. /\ "running" \notin Over /\ "exiting" \notin Over /\ "copying" \notin Over /\ "saving" \notin Over
      /\ "ended" \in Over
  BY DEF Over
<1>1. ASSUME NEW p \in Invocations, Begin(p) PROVE Types'
  <2> DEFINE c == EnsureAuthority(State.catalog, p)
  <2>1. State.catalog \in Catalogs /\ State.catalog.changes \subseteq Changes
    BY <1>0, PathFacts DEF State
  <2>2. c \in Catalogs /\ c.boot \in Invocations
    BY <2>1, Authorised
  <2>3. c.boot # NoBoot
    BY <2>2, BootAssumption
  <2>4. settled' \subseteq Changes /\ {overlapped', mangled', blind'} \subseteq BOOLEAN
    BY <1>1, <1>0, <2>1 DEF Begin
  <2> HIDE DEF c
  <2>5. /\ at' = [at EXCEPT ![p] = "running"] /\ catalog' = [catalog EXCEPT ![p] = c]
        /\ path' = path /\ file' = file /\ owed' = owed
    BY <1>1 DEF Begin, c
  <2> QED BY <1>0, <2>2, <2>3, <2>4, <2>5, PathFacts, OneMoves
<1>2. ASSUME NEW p \in Invocations, Change(p) \/ RefuseHalfway(p) PROVE Types'
  <2> DEFINE change == [by |-> p, under |-> catalog[p].boot]
  <2> DEFINE c == [catalog[p] EXCEPT !.changes = @ \cup {change}]
  <2>1. catalog[p].boot # NoBoot /\ catalog[p] \in Catalogs
    BY <1>2, <1>0, <1>p DEF Change, RefuseHalfway, histories
  <2>2. c \in Catalogs /\ c.boot # NoBoot /\ change \in Changes
    BY <2>1, Changed
  <2>3. owed' \subseteq Changes
    BY <1>2, <1>0, <2>2 DEF Change, RefuseHalfway, histories
  <2>4. catalog' = [catalog EXCEPT ![p] = c]
    BY <1>2 DEF Change, RefuseHalfway, histories
  <2> HIDE DEF c
  <2>5. /\ at' = [at EXCEPT ![p] = "exiting"] /\ path' = path /\ file' = file
        /\ settled' = settled /\ {overlapped', mangled', blind'} \subseteq BOOLEAN
    BY <1>2, <1>0 DEF Change, RefuseHalfway, histories
  <2> QED BY <1>0, <2>2, <2>3, <2>4, <2>5, PathFacts, OneMoves
<1>3. ASSUME NEW p \in Invocations, ReadOrRefuse(p) \/ Abort(p) PROVE Types'
  <2>1. PICK place \in {"exiting", "ended"} : at' = [at EXCEPT ![p] = place]
    BY <1>3 DEF ReadOrRefuse, Abort
  <2>2. /\ at[p] \notin Over /\ path' = path /\ file' = file /\ catalog' = catalog
        /\ owed' = owed /\ settled' = settled
        /\ {overlapped', mangled', blind'} \subseteq BOOLEAN
    BY <1>3, <1>0, <1>p DEF ReadOrRefuse, Abort, histories
  <2>3. catalog' = [catalog EXCEPT ![p] = catalog[p]] /\ catalog[p].boot # NoBoot
    BY <2>2, <1>0
  <2>4. place \in Over \cup {"running", "exiting", "copying", "saving"}
    BY <1>p
  <2> QED BY <1>0, <2>1, <2>2, <2>3, <2>4, PathFacts, OneMoves
<1>4. ASSUME NEW p \in Invocations, NEW f \in Paths, Recover(p, f) PROVE Types'
  <2>1. /\ at' = [at EXCEPT ![p] = "exiting"] /\ path' = path /\ file' = file
        /\ catalog' = [catalog EXCEPT ![p] = file[f].catalog]
        /\ {overlapped', mangled', blind'} \subseteq BOOLEAN
    BY <1>4, <1>0 DEF Recover
  <2>2. file[f].catalog \in Catalogs /\ file[f].catalog.boot # NoBoot
    BY <1>4, <1>0 DEF Recover
  <2>3. owed' \subseteq Changes /\ settled' \subseteq Changes
    BY <1>4, <1>0 DEF Recover
  <2> QED BY <2>1, <2>2, <2>3, OneMoves
<1>5. ASSUME NEW p \in Invocations, NEW f \in Paths, RecoverRefused(p, f) PROVE Types'
  <2>1. /\ at' = [at EXCEPT ![p] = "ended"] /\ path' = path /\ file' = file /\ catalog' = catalog
        /\ owed' = owed /\ settled' = settled
        /\ {overlapped', mangled', blind'} \subseteq BOOLEAN
    BY <1>5, <1>0 DEF RecoverRefused, histories
  <2>2. catalog' = [catalog EXCEPT ![p] = catalog[p]]
    BY <2>1, <1>0
  <2> QED BY <1>0, <1>p, <2>1, <2>2, OneMoves
<1>6. ASSUME NEW p \in Invocations, NEW f \in Paths, Open(p, f) PROVE Types'
  <2>1. PICK place \in {"copying", "saving"} : at' = [at EXCEPT ![p] = place]
    BY <1>6 DEF Open
  <2>2. /\ at[p] \notin Over /\ path' = [path EXCEPT ![p] = f] /\ file' = [file EXCEPT ![f] = Torn]
        /\ catalog' = catalog /\ owed' = owed /\ settled' = settled
        /\ {overlapped', mangled', blind'} \subseteq BOOLEAN
    BY <1>6, <1>0, <1>p DEF Open, histories
  <2>3. catalog' = [catalog EXCEPT ![p] = catalog[p]] /\ catalog[p].boot # NoBoot
    BY <2>2, <1>0
  <2> QED BY <1>0, <2>1, <2>2, <2>3, OneMoves
<1>7. ASSUME NEW p \in Invocations, Write(p) PROVE Types'
  <2>1. PICK new \in Written(path[p], catalog[p]) :
          file' = [file EXCEPT ![path[p]] = new] /\ mangled' = (mangled \/ new = Torn)
    BY <1>7 DEF Write
  <2>2. new = Image(catalog[p]) \/ new = Torn
    BY <2>1, WrittenIs
  <2>3. path[p] \in Paths
    BY DEF Types, TypeOK
  <2>4. PICK place \in {"exiting", "ended"} : at' = [at EXCEPT ![p] = place]
    BY <1>7 DEF Write
  <2>5. /\ at[p] \notin Over /\ path' = path /\ catalog' = catalog
        /\ owed' = owed /\ settled' = settled
    BY <1>7, <1>p DEF Write
  <2>6. {overlapped', mangled', blind'} \subseteq BOOLEAN
    BY <1>7, <1>0, <2>1 DEF Write
  <2>7. catalog' = [catalog EXCEPT ![p] = catalog[p]] /\ catalog[p].boot # NoBoot
    BY <2>5, <1>0
  <2>8. \/ file' = [file EXCEPT ![path[p]] = Torn]
        \/ \E d \in Catalogs : d.boot # NoBoot /\ file' = [file EXCEPT ![path[p]] = Image(d)]
    BY <1>0, <2>1, <2>2, <2>7
  <2>9. place \in Over \cup {"running", "exiting", "copying", "saving"}
    BY <1>p
  <2> QED BY <1>0, <2>3, <2>4, <2>5, <2>6, <2>7, <2>8, <2>9, OneMoves
<1>8. ASSUME NEW p \in Invocations, SaveFails(p) \/ Killed(p) PROVE Types'
  <2>1. path[p] \in Paths
    BY DEF Types, TypeOK
  <2>2. /\ at' = [at EXCEPT ![p] = "ended"] /\ path' = path /\ catalog' = catalog
        /\ file' = file \/ file' = [file EXCEPT ![path[p]] = Torn]
        /\ owed' = owed /\ settled' = settled
    BY <1>8 DEF SaveFails, Killed
  <2>3. {overlapped', mangled', blind'} \subseteq BOOLEAN
    BY <1>8, <1>0 DEF SaveFails, Killed
  <2>4. catalog' = [catalog EXCEPT ![p] = catalog[p]]
    BY <2>2, <1>0
  <2> QED BY <1>0, <1>p, <2>1, <2>2, <2>3, <2>4, OneMoves
<1> QED BY <1>s, <1>1, <1>2, <1>3, <1>4, <1>5, <1>6, <1>7, <1>8 DEF Next

(* What the types say of one invocation and of one file.                   *)
LEMMA TypeFacts ==
  ASSUME Types
  PROVE  /\ \A p \in Invocations : catalog[p] \in Catalogs /\ path[p] \in Paths
         /\ \A p \in Invocations : at[p] \notin Over => catalog[p].boot # NoBoot
         /\ \A f \in Paths : file[f].catalog \in Catalogs
         /\ \A f \in Paths : file[f].holds \in {"nothing", "debris", "image"}
         /\ \A f \in Paths : file[f].holds # "image" => file[f].catalog = Unborn
BY DEF Types, TypeOK, FileTypes

(* The actions that leave every catalog as it is, and all files but the    *)
(* one the invocation writes.                                              *)
LEMMA Leaves ==
  ASSUME NEW p \in Invocations,
         \/ ReadOrRefuse(p) \/ Abort(p) \/ SaveFails(p) \/ Killed(p)
         \/ \E f \in Paths : RecoverRefused(p, f)
  PROVE  UNCHANGED catalog /\ (file' = file \/ file' = [file EXCEPT ![path[p]] = Torn])
BY DEF ReadOrRefuse, Abort, SaveFails, Killed, RecoverRefused

LEMMA AuthoritiesNext == Types /\ Authorities /\ [Next]_vars => Authorities'
<1> SUFFICES ASSUME Types, Authorities, [Next]_vars PROVE Authorities'
  OBVIOUS
<1>s. CASE UNCHANGED vars
  BY <1>s DEF vars, Authorities, OneBoot
<1>t. CASE Next
  <2>0. \A p \in Invocations : catalog[p] \in Catalogs /\ path[p] \in Paths
    BY TypeFacts
  <2>f. \A f \in Paths : file[f].catalog \in Catalogs
    BY TypeFacts
  <2>d. catalog \in [Invocations -> Catalogs]
        /\ file \in [Paths -> [holds : {"nothing", "debris", "image"}, catalog : Catalogs]]
    BY DEF Types, TypeOK, FileTypes
  (* One catalog or one file replaced by one that is sound. *)
  <2>c. ASSUME NEW p \in Invocations, NEW c, OneBoot(c), catalog' = [catalog EXCEPT ![p] = c], file' = file
        PROVE  Authorities'
    BY <2>c, <2>d DEF Authorities, OneBoot
  <2>w. ASSUME NEW f \in Paths, NEW new, OneBoot(new.catalog), file' = [file EXCEPT ![f] = new], catalog' = catalog
        PROVE  Authorities'
    BY <2>w, <2>d DEF Authorities, OneBoot
  <2>n. OneBoot(Torn.catalog)
    BY UnbornIsCatalog, TornFields
  <2>1. ASSUME NEW p \in Invocations, Begin(p) PROVE Authorities'
    <3>1. State.catalog \in Catalogs /\ OneBoot(State.catalog)
      BY <2>f, PathFacts DEF State, Authorities
    <3>2. OneBoot(EnsureAuthority(State.catalog, p))
      BY <3>1, Authorised
    <3> QED BY <2>1, <2>c, <3>2 DEF Begin
  <2>2. ASSUME NEW p \in Invocations, Change(p) \/ RefuseHalfway(p) PROVE Authorities'
    <3> DEFINE change == [by |-> p, under |-> catalog[p].boot]
    <3> DEFINE c == [catalog[p] EXCEPT !.changes = @ \cup {change}]
    <3>1. catalog[p].boot # NoBoot /\ OneBoot(catalog[p])
      BY <2>2, TypeFacts DEF Change, RefuseHalfway, Over, Authorities
    <3>2. OneBoot(c)
      BY <3>1, <2>0, Changed
    <3>3. catalog' = [catalog EXCEPT ![p] = c] /\ file' = file
      BY <2>2 DEF Change, RefuseHalfway, histories
    <3> HIDE DEF c
    <3> QED BY <2>c, <3>2, <3>3
  <2>3. ASSUME NEW p \in Invocations, NEW f \in Paths, Recover(p, f) PROVE Authorities'
    <3>1. OneBoot(file[f].catalog)
      BY DEF Authorities
    <3> QED BY <2>3, <2>c, <3>1 DEF Recover
  <2>4. ASSUME NEW p \in Invocations, NEW f \in Paths, Open(p, f) PROVE Authorities'
    BY <2>4, <2>w, <2>n DEF Open
  <2>5. ASSUME NEW p \in Invocations, Write(p) PROVE Authorities'
    <3>1. PICK new \in Written(path[p], catalog[p]) : file' = [file EXCEPT ![path[p]] = new]
      BY <2>5 DEF Write
    <3>2. OneBoot(new.catalog)
      BY <3>1, WrittenIs, ImageFields, <2>n DEF Authorities
    <3>3. catalog' = catalog
      BY <2>5 DEF Write
    <3> QED BY <2>0, <2>w, <3>1, <3>2, <3>3
  <2>6. ASSUME NEW p \in Invocations, UNCHANGED catalog,
               file' = file \/ file' = [file EXCEPT ![path[p]] = Torn]
        PROVE  Authorities'
    <3>1. CASE file' = file
      BY <2>6, <3>1 DEF Authorities, OneBoot
    <3> QED BY <2>0, <2>6, <2>n, <2>w, <3>1
  <2>7. ASSUME NEW p \in Invocations,
               \/ ReadOrRefuse(p) \/ Abort(p) \/ SaveFails(p) \/ Killed(p)
               \/ \E f \in Paths : RecoverRefused(p, f)
        PROVE  Authorities'
    <3>1. UNCHANGED catalog /\ (file' = file \/ file' = [file EXCEPT ![path[p]] = Torn])
      BY <2>7, Leaves
    <3> QED BY <2>6, <3>1
  <2>8. PICK p \in Invocations :
          \/ Begin(p) \/ Change(p) \/ RefuseHalfway(p) \/ ReadOrRefuse(p) \/ Abort(p)
          \/ \E f \in Paths : Recover(p, f) \/ RecoverRefused(p, f) \/ Open(p, f)
          \/ Write(p) \/ SaveFails(p) \/ Killed(p)
    BY <1>t DEF Next
  <2>9. CASE \E f \in Paths : Recover(p, f) \/ RecoverRefused(p, f) \/ Open(p, f)
    <3>1. PICK f \in Paths : Recover(p, f) \/ RecoverRefused(p, f) \/ Open(p, f)
      BY <2>9
    <3> QED BY <3>1, <2>3, <2>4, <2>7
  <2> QED BY <2>8, <2>1, <2>2, <2>5, <2>7, <2>9
<1> QED BY <1>s, <1>t

(* An image never mixes authorities, whatever overlaps or is cut short.    *)
THEOREM ImagesHaveOneAuthority == Spec => []OneAuthority
<1>1. Init => Types /\ Authorities
  <2> SUFFICES ASSUME Init PROVE Authorities
    BY TypesInit
  <2>1. /\ \A p \in Invocations : catalog[p] = Unborn
        /\ \A f \in Paths : file[f].catalog = Unborn
    BY DEF Init
  <2> QED BY <2>1, UnbornIsCatalog DEF Authorities
<1>2. Types /\ Authorities /\ [Next]_vars => (Types /\ Authorities)'
  BY TypesNext, AuthoritiesNext
<1>3. Types /\ Authorities => OneAuthority
  BY DEF Authorities, OneBoot, OneAuthority
<1> QED BY <1>1, <1>2, <1>3, PTL DEF Spec

(* A process that runs has an authority, and so has every image.           *)
THEOREM CommandLineTypes == Spec => []TypeOK
<1>1. Types => TypeOK
  BY DEF Types
<1> QED BY <1>1, TypesInit, TypesNext, PTL DEF Spec

-----------------------------------------------------------------------------
LEMMA PlacesApart ==
  /\ {"running", "exiting", "copying", "saving"} \cap Over = {}
  /\ "ended" \in Over /\ "not begun" \in Over
BY DEF Over

(* A step of p leaves where the others are, what they hold and what they   *)
(* write.                                                                  *)
LEMMA OthersStay ==
  ASSUME Types, NEW p \in Invocations,
         \/ Begin(p) \/ Change(p) \/ RefuseHalfway(p) \/ ReadOrRefuse(p) \/ Abort(p)
         \/ \E f \in Paths : Recover(p, f) \/ RecoverRefused(p, f) \/ Open(p, f)
         \/ Write(p) \/ SaveFails(p) \/ Killed(p)
  PROVE  \A q \in Invocations \ {p} :
           at'[q] = at[q] /\ catalog'[q] = catalog[q] /\ path'[q] = path[q]
<1>1. /\ at \in [Invocations -> Over \cup {"running", "exiting", "copying", "saving"}]
      /\ path \in [Invocations -> Paths] /\ catalog \in [Invocations -> Catalogs]
  BY DEF Types, TypeOK
<1>2. /\ \E place : at' = [at EXCEPT ![p] = place]
      /\ catalog' = catalog \/ \E c : catalog' = [catalog EXCEPT ![p] = c]
      /\ path' = path \/ \E f : path' = [path EXCEPT ![p] = f]
  BY DEF Begin, Change, RefuseHalfway, ReadOrRefuse, Abort, Recover, RecoverRefused, Open, Write, SaveFails, Killed
<1> QED BY <1>1, <1>2

(* Once an invocation overlaps another, or a save goes wrong, Kept asks no *)
(* more than that exit saves go to the state file.                         *)
LEMMA KeptNext == Types /\ Kept /\ [Next]_vars => Kept'
<1> SUFFICES ASSUME Types, Kept, [Next]_vars PROVE Kept'
  OBVIOUS
<1>s. CASE UNCHANGED vars
  BY <1>s DEF vars, Kept, Alone, Carried, Writing, ChangesAreKept, State, Quiet
<1>t. CASE Next
  <2>1. PICK p \in Invocations :
          \/ Begin(p) \/ Change(p) \/ RefuseHalfway(p) \/ ReadOrRefuse(p) \/ Abort(p)
          \/ \E f \in Paths : Recover(p, f) \/ RecoverRefused(p, f) \/ Open(p, f)
          \/ Write(p) \/ SaveFails(p) \/ Killed(p)
    BY <1>t DEF Next
  <2>2. \A q \in Invocations \ {p} :
          at'[q] = at[q] /\ catalog'[q] = catalog[q] /\ path'[q] = path[q]
    BY <2>1, OthersStay
  <2>t. /\ at \in [Invocations -> Over \cup {"running", "exiting", "copying", "saving"}]
        /\ path \in [Invocations -> Paths] /\ catalog \in [Invocations -> Catalogs]
        /\ {overlapped, mangled, blind} \subseteq BOOLEAN
        /\ file \in [Paths -> [holds : {"nothing", "debris", "image"}, catalog : Catalogs]]
        /\ "af_state.bin" \in Paths
    BY PathFacts DEF Types, TypeOK, FileTypes
  <2>3. \A q \in Invocations : at'[q] = "saving" => path'[q] = "af_state.bin"
    <3>1. at'[p] = "saving" => path'[p] = "af_state.bin"
      BY <2>1, <2>t DEF Begin, Change, RefuseHalfway, ReadOrRefuse, Abort, Recover, RecoverRefused, Open, Write, SaveFails, Killed
    <3> QED BY <2>2, <3>1 DEF Kept
  <2>4. ~overlapped' => ~overlapped
    BY <2>1 DEF Begin, Change, RefuseHalfway, ReadOrRefuse, Abort, Recover, RecoverRefused, Open, Write, SaveFails, Killed, histories
  <2>5. ~overlapped' => \A q \in Invocations \ {p} : at[q] \in Over
    <3>1. CASE Begin(p)
      BY <3>1 DEF Begin, Quiet
    <3>2. CASE ~Begin(p)
      <4>1. at[p] \notin Over
        BY <2>1, <3>2, PlacesApart DEF Change, RefuseHalfway, ReadOrRefuse, Abort, Recover, RecoverRefused, Open, Write, SaveFails, Killed
      <4> QED BY <2>4, <4>1 DEF Kept, Alone
    <3> QED BY <3>1, <3>2
  <2>6. ~overlapped' => Alone'
    BY <2>2, <2>5 DEF Alone
  <2>7. ~mangled' => ~mangled
    BY <2>1 DEF Begin, Change, RefuseHalfway, ReadOrRefuse, Abort, Recover, RecoverRefused, Open, Write, SaveFails, Killed, histories
  <2>8. ASSUME ~overlapped', ~mangled' 
        PROVE  Carried(p)' /\ (at'[p] \in Over => owed' \subseteq State'.catalog.changes)
    <3>1. /\ at[p] \notin Over => owed \subseteq catalog[p].changes
          /\ at[p] = "running" => owed \subseteq State.catalog.changes
          /\ Writing(p) => file[path[p]] = Torn
      BY <2>4, <2>7, <2>8 DEF Kept, Carried
    <3> SUFFICES /\ at'[p] \notin Over => owed' \subseteq catalog'[p].changes
                 /\ at'[p] \in Over \cup {"running"} => owed' \subseteq file'["af_state.bin"].catalog.changes
                 /\ at'[p] \in {"copying", "saving"} => file'[path'[p]] = Torn
      BY PlacesApart DEF Carried, Writing, State
    <3>2. CASE Begin(p)
      <4>1. Quiet /\ owed \subseteq State.catalog.changes
        BY <2>4, <2>7, <2>8, <3>2 DEF Begin, Kept, ChangesAreKept
      <4>2. EnsureAuthority(State.catalog, p).changes = State.catalog.changes
        BY Authorised, TypeFacts, PathFacts DEF State
      <4>3. /\ at'[p] = "running" /\ owed' = owed /\ file' = file
            /\ catalog'[p] = EnsureAuthority(State.catalog, p)
        BY <3>2, <2>t DEF Begin
      <4> QED BY <4>1, <4>2, <4>3 DEF State
    <3>3. CASE Change(p) \/ RefuseHalfway(p)
      <4> DEFINE change == [by |-> p, under |-> catalog[p].boot]
      <4>1. catalog[p] \in Catalogs /\ catalog[p].boot # NoBoot
        BY <3>3, TypeFacts, PlacesApart DEF Change, RefuseHalfway, histories
      <4>2. [catalog[p] EXCEPT !.changes = @ \cup {change}].changes = catalog[p].changes \cup {change}
        BY <4>1, Changed
      <4>3. /\ at'[p] = "exiting" /\ owed' \subseteq owed \cup {change}
            /\ catalog'[p] = [catalog[p] EXCEPT !.changes = @ \cup {change}]
        BY <3>3, <2>t DEF Change, RefuseHalfway, histories
      <4>4. owed \subseteq catalog[p].changes
        BY <3>1, <3>3, PlacesApart DEF Change, RefuseHalfway, histories
      <4> HIDE DEF change
      <4> QED BY <4>2, <4>3, <4>4, PlacesApart
    <3>4. CASE ReadOrRefuse(p) \/ Abort(p) \/ \E f \in Paths : RecoverRefused(p, f)
      <4>1. /\ at[p] = "running" /\ at'[p] \in {"exiting", "ended"}
            /\ owed' = owed /\ catalog' = catalog /\ file' = file
        BY <3>4, <2>t DEF ReadOrRefuse, Abort, RecoverRefused, histories
      <4> QED BY <3>1, <4>1, PlacesApart DEF State
    <3>5. CASE \E f \in Paths : Recover(p, f)
      <4>1. PICK f \in Paths : Recover(p, f)
        BY <3>5
      <4>2. /\ at'[p] = "exiting" /\ catalog'[p] = file[f].catalog
            /\ owed' = file[f].catalog.changes
        BY <4>1, <2>t DEF Recover
      <4> QED BY <4>2, PlacesApart
    <3>6. CASE \E f \in Paths : Open(p, f)
      <4>1. PICK f \in Paths : Open(p, f)
        BY <3>6
      <4>2. /\ at[p] \in {"running", "exiting"} /\ at'[p] \in {"copying", "saving"}
            /\ path'[p] = f /\ file'[f] = Torn
            /\ owed' = owed /\ catalog' = catalog
        BY <4>1, <2>t DEF Open, histories
      <4> QED BY <3>1, <4>2, PlacesApart
    <3>7. CASE Write(p)
      <4>1. PICK new \in Written(path[p], catalog[p]) :
              /\ file' = [file EXCEPT ![path[p]] = new]
              /\ mangled' = (mangled \/ new = Torn)
        BY <3>7 DEF Write
      <4>2. Writing(p)
        BY <3>7 DEF Write, Writing
      <4>3. new = Image(catalog[p])
        BY <2>8, <4>1, WrittenIs
      <4>4. owed \subseteq catalog[p].changes /\ owed' = owed /\ catalog' = catalog
        BY <3>1, <3>7, <4>2, PlacesApart DEF Write, Writing
      <4>5. CASE at[p] = "copying"
        <5>1. at'[p] = "exiting"
          BY <3>7, <4>5, <2>t DEF Write
        <5> QED BY <4>4, <5>1, PlacesApart
      <4>6. CASE at[p] = "saving"
        <5>1. at'[p] = "ended" /\ path[p] = "af_state.bin"
          BY <3>7, <4>6, <2>t DEF Write, Kept
        <5>2. file'["af_state.bin"].catalog = catalog[p]
          BY <4>1, <4>3, <5>1, <2>t, ImageFields
        <5> QED BY <4>4, <5>1, <5>2, PlacesApart
      <4> QED BY <4>2, <4>5, <4>6 DEF Writing
    <3>8. CASE SaveFails(p) \/ Killed(p)
      <4>1. /\ at[p] = "running" /\ at'[p] = "ended" /\ owed' = owed /\ file' = file
        BY <2>8, <3>8, <2>t DEF SaveFails, Killed
      <4> QED BY <3>1, <4>1, PlacesApart DEF State
    <3> QED BY <2>1, <3>2, <3>3, <3>4, <3>5, <3>6, <3>7, <3>8
  <2>9. ASSUME ~overlapped', ~mangled', NEW q \in Invocations \ {p} PROVE Carried(q)'
    <3>1. at'[q] \in Over
      BY <2>2, <2>5, <2>9
    <3> QED BY <3>1, PlacesApart DEF Carried, Writing
  <2>10. ASSUME ~overlapped', ~mangled', Quiet' PROVE owed' \subseteq State'.catalog.changes
    BY <2>8, <2>10 DEF Quiet
  <2> QED BY <2>3, <2>6, <2>8, <2>9, <2>10 DEF Kept, ChangesAreKept, State
<1> QED BY <1>s, <1>t

(* One invocation at a time keeps every change a user was told of.         *)
THEOREM SerialInvocationsKeepChanges == Spec => []ChangesAreKept
<1>1. Init => Types /\ Kept
  <2> SUFFICES ASSUME Init PROVE Kept
    BY TypesInit
  <2>1. /\ \A p \in Invocations : at[p] = "not begun"
        /\ owed = {}
    BY DEF Init
  <2> QED BY <2>1, PlacesApart DEF Kept, Alone, Carried, Writing, ChangesAreKept
<1>2. Types /\ Kept /\ [Next]_vars => (Types /\ Kept)'
  BY TypesNext, KeptNext
<1>3. Kept => ChangesAreKept
  BY DEF Kept
<1> QED BY <1>1, <1>2, <1>3, PTL DEF Spec

-----------------------------------------------------------------------------
LEMMA StaysNext == Types /\ Stays /\ [Next]_vars => Stays'
<1> SUFFICES ASSUME Types, Stays, [Next]_vars PROVE Stays'
  OBVIOUS
<1>s. CASE UNCHANGED vars
  BY <1>s DEF vars, Stays, Writing, State
<1>t. CASE Next
  <2> DEFINE Sound ==
        /\ \A q \in Invocations : at'[q] \notin Over => settled' \subseteq catalog'[q].changes
        /\ file'["af_state.bin"].holds # "debris" => settled' \subseteq file'["af_state.bin"].catalog.changes
        /\ file'["af_state.bin"].holds = "debris" =>
             \E q \in Invocations : at'[q] \in {"copying", "saving"} /\ path'[q] = "af_state.bin"
  <2> SUFFICES ASSUME ~mangled', ~blind' PROVE Sound
    BY DEF Stays, Writing, State
  <2>1. PICK p \in Invocations :
          \/ Begin(p) \/ Change(p) \/ RefuseHalfway(p) \/ ReadOrRefuse(p) \/ Abort(p)
          \/ \E f \in Paths : Recover(p, f) \/ RecoverRefused(p, f) \/ Open(p, f)
          \/ Write(p) \/ SaveFails(p) \/ Killed(p)
    BY <1>t DEF Next
  <2>2. \A q \in Invocations \ {p} :
          at'[q] = at[q] /\ catalog'[q] = catalog[q] /\ path'[q] = path[q]
    BY <2>1, OthersStay
  <2>t. /\ at \in [Invocations -> Over \cup {"running", "exiting", "copying", "saving"}]
        /\ path \in [Invocations -> Paths] /\ catalog \in [Invocations -> Catalogs]
        /\ {overlapped, mangled, blind} \subseteq BOOLEAN
        /\ file \in [Paths -> [holds : {"nothing", "debris", "image"}, catalog : Catalogs]]
        /\ "af_state.bin" \in Paths
    BY PathFacts DEF Types, TypeOK, FileTypes
  <2>3. ~mangled /\ ~blind
    <3>1. ~mangled' => ~mangled
      BY <2>1 DEF Begin, Change, RefuseHalfway, ReadOrRefuse, Abort, Recover, RecoverRefused, Open, Write, SaveFails, Killed, histories
    <3>2. ~blind' => ~blind
      BY <2>1 DEF Begin, Change, RefuseHalfway, ReadOrRefuse, Abort, Recover, RecoverRefused, Open, Write, SaveFails, Killed, histories
    <3> QED BY <3>1, <3>2
  <2>4. /\ \A q \in Invocations : at[q] \notin Over => settled \subseteq catalog[q].changes
        /\ State.holds # "debris" => settled \subseteq State.catalog.changes
        /\ State.holds = "debris" =>
             \E q \in Invocations : at[q] \in {"copying", "saving"} /\ path[q] = "af_state.bin"
    BY <2>3 DEF Stays, Writing
  (* The state file stays as it is, and p was not the one to write it. *)
  <2>5. ASSUME settled' \subseteq settled,
               at'[p] \notin Over => settled' \subseteq catalog'[p].changes,
               file'["af_state.bin"] = State,
               at[p] \notin {"copying", "saving"} \/ path[p] # "af_state.bin"
        PROVE  Sound
    <3>1. \A q \in Invocations : at'[q] \notin Over => settled' \subseteq catalog'[q].changes
      BY <2>2, <2>4, <2>5
    <3>2. State.holds = "debris" =>
            \E q \in Invocations : at'[q] \in {"copying", "saving"} /\ path'[q] = "af_state.bin"
      BY <2>2, <2>4, <2>5
    <3> QED BY <2>4, <2>5, <3>1, <3>2
  <2> HIDE DEF Sound
  <2>6. CASE Begin(p)
    <3>1. State.holds # "debris"
      BY <2>6 DEF Begin
    <3>2. settled' \subseteq State.catalog.changes
      BY <2>4, <2>6, <3>1 DEF Begin
    <3>3. EnsureAuthority(State.catalog, p).changes = State.catalog.changes
      BY Authorised, TypeFacts, PathFacts DEF State
    <3>4. catalog'[p] = EnsureAuthority(State.catalog, p) /\ file' = file
      BY <2>6, <2>t DEF Begin
    <3>5. ASSUME NEW q \in Invocations \ {p}, at'[q] \notin Over
          PROVE  settled' \subseteq catalog'[q].changes
      <4>1. at[q] \notin Over /\ catalog'[q] = catalog[q]
        BY <2>2, <3>5
      <4>2. settled' = settled
        BY <2>6, <4>1 DEF Begin, Quiet
      <4> QED BY <2>4, <4>1, <4>2
    <3> QED BY <3>1, <3>2, <3>3, <3>4, <3>5 DEF Sound, State
  <2>7. CASE Change(p) \/ RefuseHalfway(p)
    <3> DEFINE change == [by |-> p, under |-> catalog[p].boot]
    <3>1. catalog[p] \in Catalogs /\ catalog[p].boot # NoBoot /\ at[p] = "running"
      BY <2>7, TypeFacts, PlacesApart DEF Change, RefuseHalfway, histories
    <3>2. [catalog[p] EXCEPT !.changes = @ \cup {change}].changes = catalog[p].changes \cup {change}
      BY <3>1, Changed
    <3>3. /\ catalog'[p] = [catalog[p] EXCEPT !.changes = @ \cup {change}]
          /\ settled' = settled /\ file' = file
      BY <2>7, <2>t DEF Change, RefuseHalfway, histories
    <3> HIDE DEF change
    <3>4. settled \subseteq catalog[p].changes
      BY <2>4, <3>1, PlacesApart
    <3>5. settled' \subseteq catalog'[p].changes
      BY <3>2, <3>3, <3>4
    <3> QED BY <2>5, <3>1, <3>3, <3>5 DEF State
  <2>8. CASE ReadOrRefuse(p) \/ Abort(p) \/ \E f \in Paths : RecoverRefused(p, f)
    <3>1. /\ at[p] = "running" /\ settled' = settled /\ catalog' = catalog /\ file' = file
      BY <2>8 DEF ReadOrRefuse, Abort, RecoverRefused, histories
    <3> QED BY <2>4, <2>5, <3>1, PlacesApart DEF State
  <2>9. CASE \E f \in Paths : Recover(p, f)
    <3>1. PICK f \in Paths : Recover(p, f)
      BY <2>9
    <3>2. /\ at[p] = "running" /\ catalog'[p] = file[f].catalog /\ file' = file
          /\ settled' = settled \cap file[f].catalog.changes
      BY <3>1, <2>t DEF Recover
    <3> QED BY <2>5, <3>2 DEF State
  <2>10. CASE \E f \in Paths : Open(p, f)
    <3>1. PICK f \in Paths : Open(p, f)
      BY <2>10
    <3>2. /\ at[p] \in {"running", "exiting"} /\ at'[p] \in {"copying", "saving"}
          /\ path'[p] = f /\ file' = [file EXCEPT ![f] = Torn]
          /\ settled' = settled /\ catalog' = catalog
      BY <3>1, <2>t DEF Open, histories
    <3>3. settled' \subseteq catalog'[p].changes
      BY <2>4, <3>2, PlacesApart
    <3>4. CASE f = "af_state.bin"
      <4>1. file'["af_state.bin"].holds = "debris"
        BY <3>2, <3>4, <2>t, TornFields
      <4>2. \A q \in Invocations : at'[q] \notin Over => settled' \subseteq catalog'[q].changes
        BY <2>2, <2>4, <3>2, <3>3
      <4> QED BY <3>2, <3>4, <4>1, <4>2 DEF Sound
    <3>5. CASE f # "af_state.bin"
      BY <2>5, <2>t, <3>2, <3>3, <3>5 DEF State
    <3> QED BY <3>4, <3>5
  <2>11. CASE Write(p)
    <3>1. PICK new \in Written(path[p], catalog[p]) :
            /\ file' = [file EXCEPT ![path[p]] = new]
            /\ mangled' = (mangled \/ new = Torn)
      BY <2>11 DEF Write
    <3>2. new = Image(catalog[p])
      BY <3>1, WrittenIs
    <3>3. at[p] \in {"copying", "saving"} /\ settled' = settled /\ catalog' = catalog
      BY <2>11 DEF Write
    <3>4. settled \subseteq catalog[p].changes
      BY <2>4, <3>3, PlacesApart
    <3>5. CASE path[p] = "af_state.bin"
      <4>1. file'["af_state.bin"].holds = "image" /\ file'["af_state.bin"].catalog = catalog[p]
        BY <3>1, <3>2, <3>5, <2>t, ImageFields
      <4>2. \A q \in Invocations : at'[q] \notin Over => settled' \subseteq catalog'[q].changes
        BY <2>2, <2>4, <3>3, <3>4
      <4> QED BY <3>3, <3>4, <4>1, <4>2 DEF Sound
    <3>6. CASE path[p] # "af_state.bin"
      BY <2>5, <2>t, <3>1, <3>3, <3>4, <3>6 DEF State
    <3> QED BY <3>5, <3>6
  <2>12. CASE SaveFails(p) \/ Killed(p)
    <3>1. /\ at[p] = "running" /\ at'[p] = "ended" /\ settled' = settled /\ file' = file
      BY <2>12, <2>t DEF SaveFails, Killed
    <3> QED BY <2>5, <3>1, PlacesApart DEF State
  <2> QED BY <2>1, <2>6, <2>7, <2>8, <2>9, <2>10, <2>11, <2>12
<1> QED BY <1>s, <1>t

(* Overlapping invocations lose changes only among themselves, as long as  *)
(* each save is completed and none begins in the middle of one.            *)
THEOREM OverlappingInvocationsKeepSettled == Spec => []SettledChangesStay
<1>1. Init => Types /\ Stays
  <2> SUFFICES ASSUME Init PROVE Stays
    BY TypesInit
  <2>1. /\ \A p \in Invocations : at[p] = "not begun"
        /\ settled = {} /\ State.holds = "nothing"
    BY PathFacts DEF Init, State
  <2> QED BY <2>1, PlacesApart DEF Stays
<1>2. Types /\ Stays /\ [Next]_vars => (Types /\ Stays)'
  BY TypesNext, StaysNext
<1>3. Types /\ Stays => SettledChangesStay
  <2> SUFFICES ASSUME Types, Stays, Quiet, ~mangled, ~blind
               PROVE  settled \subseteq State.catalog.changes
    BY DEF SettledChangesStay
  <2>1. \A p \in Invocations : ~Writing(p)
    BY PlacesApart DEF Quiet, Writing
  <2> QED BY <2>1 DEF Stays
<1> QED BY <1>1, <1>2, <1>3, PTL DEF Spec
=============================================================================
