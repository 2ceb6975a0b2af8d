--------------------------- MODULE IdentityProofs ---------------------------
(***************************************************************************)
(* The identity file, for any number of processes, paths and files.        *)
(***************************************************************************)
EXTENDS Identity, TLAPS

-----------------------------------------------------------------------------
(* Types.                                                                  *)

HasFile == \A d \in Daemons : at[d] \in {"opened", "created", "written"} => handle[d] # None
HasKey == \A d \in Daemons : at[d] \in {"created", "written", "synced"} => key[d] # None
\* What the daemons put under a temporary name is theirs.
Ours ==
  /\ \A p \in Paths : entry[Tmp[p]] \notin Foreign /\ entryOnDisk[Tmp[p]] \notin Foreign
  /\ \A d \in Daemons : at[d] \in {"created", "written"} => handle[d] \notin Foreign
ForeignTorn == \A i \in Foreign : data[i] = Torn /\ dataOnDisk[i] = Torn

Types == TypeOK /\ HasFile /\ HasKey /\ Ours /\ ForeignTorn

LEMMA NamesOf ==
  /\ \A p \in Paths : p \in Names /\ Tmp[p] \in Names /\ Tmp[p] \notin Paths
  /\ \A d \in Daemons : PathOf[d] \in Paths
BY IdentityAssumption DEF Names

LEMMA TypesInit == Init => Types
BY IdentityAssumption, NamesOf DEF Init, Types, TypeOK, HasFile, HasKey, Ours, ForeignTorn

LEMMA TypesStep == Types /\ [Next]_vars => Types'
<1> SUFFICES ASSUME Types, [Next]_vars PROVE Types'
  OBVIOUS
<1> USE IdentityAssumption, NamesOf DEF Types, TypeOK, HasFile, HasKey, Ours, ForeignTorn, disk
<1>1. ASSUME NEW d \in Daemons, OpenIdentity(d) PROVE Types'
  <2>1. raced' \subseteq Paths
    BY <1>1 DEF OpenIdentity, NoteOverlap, Path
  <2> QED BY <1>1, <2>1 DEF OpenIdentity, Path
<1>2. ASSUME NEW d \in Daemons, ReadIdentity(d) PROVE Types'
  BY <1>2 DEF ReadIdentity
<1>3. ASSUME NEW d \in Daemons, CreateTmp(d) PROVE Types'
  <2> DEFINE t == Tmp[Path(d)]
  <2>1. t \in Names /\ Path(d) \in Paths
    BY DEF Path
  <2>2. PICK k \in Keys \ minted : key' = [key EXCEPT ![d] = k] /\ minted' = minted \cup {k}
    BY <1>3 DEF CreateTmp
  <2>3. PICK i \in Inodes : /\ IF entry[t] = None THEN Unused(i) ELSE i = entry[t]
                            /\ entry' = [entry EXCEPT ![t] = i]
                            /\ data' = [data EXCEPT ![i] = Torn]
                            /\ handle' = [handle EXCEPT ![d] = i]
    BY <1>3 DEF CreateTmp
  <2>4. i \notin Foreign /\ i # None
    BY <2>1, <2>3 DEF Unused, Path
  <2> HIDE DEF t
  <2> QED BY <1>3, <2>1, <2>2, <2>3, <2>4 DEF CreateTmp
<1>4. ASSUME NEW d \in Daemons, WriteTmp(d) PROVE Types'
  BY <1>4 DEF WriteTmp
<1>5. ASSUME NEW d \in Daemons, SyncTmp(d) PROVE Types'
  BY <1>5 DEF SyncTmp
<1>6. ASSUME NEW d \in Daemons, Publish(d) PROVE Types'
  <2> DEFINE t == Tmp[Path(d)]
             e == entry[t]
  <2>1. t \in Names /\ Path(d) \in Paths /\ e \in Inodes \cup {None}
    BY DEF Path
  <2>2. entry' = [entry EXCEPT ![Path(d)] = e, ![t] = None]
    BY <1>6 DEF Publish
  <2>3. entry' \in [Names -> Inodes \cup {None}]
    BY <2>1, <2>2
  <2>4. \A p \in Paths : entry'[Tmp[p]] \in {entry[Tmp[p]], None}
    BY <2>1, <2>2
  <2> QED BY <1>6, <2>3, <2>4 DEF Publish
<1>7. ASSUME NEW d \in Daemons, Stop(d) PROVE Types'
  BY <1>7 DEF Stop
<1>8. ASSUME NEW i \in Inodes, WriteBackData(i) PROVE Types'
  BY <1>8 DEF WriteBackData
<1>9. CASE WriteBackEntries
  BY <1>9 DEF WriteBackEntries
<1>10. CASE PowerLoss
  BY <1>10 DEF PowerLoss
<1>11. CASE UNCHANGED vars
  BY <1>11 DEF vars
<1> QED BY <1>1, <1>2, <1>3, <1>4, <1>5, <1>6, <1>7, <1>8, <1>9, <1>10, <1>11 DEF Next

-----------------------------------------------------------------------------
(* Every file belongs to one path: the directory, the directory on disk    *)
(* and the open handles know it under names of that path only.             *)

Holds(p, i) ==
  \/ entry[p] = i \/ entry[Tmp[p]] = i
  \/ entryOnDisk[p] = i \/ entryOnDisk[Tmp[p]] = i
  \/ \E d \in Daemons : Path(d) = p /\ handle[d] = i

OneHome == \A i \in Inodes : \A p, q \in Paths : Holds(p, i) /\ Holds(q, i) => p = q

\* No file has both names of a path.
OneName ==
  \A p \in Paths :
    /\ entry[p] # None => entry[p] # entry[Tmp[p]]
    /\ entryOnDisk[p] # None => entryOnDisk[p] # entryOnDisk[Tmp[p]]

Homes == OneHome /\ OneName

LEMMA HomesInit == Init => Homes
<1> SUFFICES ASSUME Init PROVE Homes
  OBVIOUS
<1>1. /\ \A p \in Paths : entry[Tmp[p]] = None /\ entryOnDisk[Tmp[p]] = None
      /\ entryOnDisk = entry
      /\ \A d \in Daemons : handle[d] = None
      /\ \A p, q \in Paths : entry[p] = entry[q] => p = q \/ entry[p] = None
  BY NamesOf DEF Init
<1> QED BY <1>1, IdentityAssumption DEF Homes, OneHome, OneName, Holds

\* A step that gives files to no path but one, which held it or found it unused.
LEMMA OneHomeStep ==
  ASSUME OneHome, NEW p \in Paths, NEW j,
         \A q \in Paths : Holds(q, j) => q = p,
         \A q \in Paths : \A i \in Inodes : Holds(q, i)' => Holds(q, i) \/ (q = p /\ i = j)
  PROVE  OneHome'
BY DEF OneHome

LEMMA NoNewHome ==
  ASSUME OneHome,
         \A q \in Paths : \A i \in Inodes : Holds(q, i)' => Holds(q, i)
  PROVE  OneHome'
BY DEF OneHome

LEMMA HomesStep == Types /\ Homes /\ [Next]_vars => Homes'
<1> SUFFICES ASSUME Types, Homes, [Next]_vars PROVE Homes'
  OBVIOUS
<1>1. /\ handle \in [Daemons -> Inodes \cup {None}] /\ entry \in [Names -> Inodes \cup {None}]
      /\ entryOnDisk \in [Names -> Inodes \cup {None}] /\ None \notin Inodes
      /\ \A d \in Daemons : Path(d) \in Paths
      /\ OneHome
  BY IdentityAssumption, NamesOf DEF Types, TypeOK, Path, Homes
<1>2. ASSUME NEW d \in Daemons, OpenIdentity(d) PROVE Homes'
  <2>1. UNCHANGED <<entry, entryOnDisk>>
    BY <1>2 DEF OpenIdentity, disk
  <2>2. \/ handle' = handle
        \/ handle' = [handle EXCEPT ![d] = entry[Path(d)]]
    BY <1>2 DEF OpenIdentity
  <2>3. \A e \in Daemons : handle'[e] = handle[e] \/ (e = d /\ handle'[e] = entry[Path(d)])
    BY <1>1, <2>2
  <2>4. \A q \in Paths : \A i \in Inodes : Holds(q, i)' => Holds(q, i)
    BY <2>1, <2>3 DEF Holds
  <2> QED BY <2>1, <2>4, NoNewHome DEF Homes, OneName
<1>3. ASSUME NEW d \in Daemons, CreateTmp(d) PROVE Homes'
  <2> DEFINE p == Path(d)
             t == Tmp[p]
  <2>1. PICK j \in Inodes : /\ IF entry[t] = None THEN Unused(j) ELSE j = entry[t]
                            /\ entry' = [entry EXCEPT ![t] = j]
                            /\ handle' = [handle EXCEPT ![d] = j]
    BY <1>3 DEF CreateTmp
  <2>2. p \in Paths /\ t \in Names /\ t \notin Paths /\ UNCHANGED entryOnDisk
        /\ \A q \in Paths : q \in Names /\ Tmp[q] \in Names /\ (Tmp[q] = t => q = p)
    BY <1>1, <1>3, NamesOf, IdentityAssumption DEF CreateTmp, disk, Path
  <2>3. \A q \in Paths : Holds(q, j) => q = p
    <3>1. CASE entry[t] = None
      BY <2>1, <2>2, <3>1 DEF Unused, Holds
    <3>2. CASE entry[t] # None
      <4>1. Holds(p, j)
        BY <2>1, <3>2 DEF Holds
      <4> QED BY <1>1, <2>2, <4>1 DEF OneHome
    <3> QED BY <3>1, <3>2
  <2>4. /\ \A q \in Paths : entry'[q] = entry[q]
        /\ \A q \in Paths : entry'[Tmp[q]] = entry[Tmp[q]] \/ (q = p /\ entry'[Tmp[q]] = j)
        /\ \A e \in Daemons : handle'[e] = handle[e] \/ (e = d /\ handle'[e] = j)
    BY <1>1, <2>1, <2>2
  <2>5. \A q \in Paths : \A i \in Inodes : Holds(q, i)' => Holds(q, i) \/ (q = p /\ i = j)
    BY <2>2, <2>4 DEF Holds
  <2>6. OneHome'
    BY <1>1, <2>2, <2>3, <2>5, OneHomeStep
  <2>7. ASSUME NEW q \in Paths
        PROVE  /\ entry'[q] # None => entry'[q] # entry'[Tmp[q]]
               /\ entryOnDisk'[q] # None => entryOnDisk'[q] # entryOnDisk'[Tmp[q]]
    <3>1. CASE entry'[Tmp[q]] = entry[Tmp[q]]
      BY <2>2, <2>4, <3>1 DEF Homes, OneName
    <3>2. CASE q = p /\ entry'[Tmp[q]] = j
      <4>1. entry[p] # j
        <5>1. CASE entry[t] = None
          BY <2>1, <2>2, <5>1 DEF Unused
        <5>2. CASE entry[t] # None
          BY <1>1, <2>1, <2>2, <5>2 DEF Homes, OneName
        <5> QED BY <5>1, <5>2
      <4> QED BY <2>2, <2>4, <3>2, <4>1 DEF Homes, OneName
    <3> QED BY <2>4, <3>1, <3>2
  <2> QED BY <2>6, <2>7 DEF Homes, OneName
<1>4. ASSUME NEW d \in Daemons, Publish(d) PROVE Homes'
  <2> DEFINE p == Path(d)
             t == Tmp[p]
             f == entry[t]
  <2>1. f # None /\ entry' = [entry EXCEPT ![p] = f, ![t] = None] /\ UNCHANGED <<handle, entryOnDisk>>
    BY <1>4 DEF Publish, disk
  <2>2. p \in Paths /\ p \in Names /\ t \in Names /\ t \notin Paths /\ f \in Inodes \cup {None}
        /\ \A q \in Paths : q \in Names /\ Tmp[q] \in Names /\ Tmp[q] \notin Paths /\ (Tmp[q] = t => q = p)
    BY <1>1, NamesOf, IdentityAssumption DEF Path
  <2> HIDE DEF p, t, f
  <2>3. /\ \A q \in Paths : entry'[q] = entry[q] \/ (q = p /\ entry'[q] = f)
        /\ \A q \in Paths \ {p} : entry'[Tmp[q]] = entry[Tmp[q]]
        /\ entry'[Tmp[p]] = None
    BY <1>1, <2>1, <2>2 DEF t
  <2>4. Holds(p, f)
    BY DEF Holds, f, t
  <2>5. \A q \in Paths : \A i \in Inodes : Holds(q, i)' => Holds(q, i)
    BY <1>1, <2>1, <2>3, <2>4 DEF Holds
  <2>6. OneName'
    BY <1>1, <2>1, <2>2, <2>3 DEF Homes, OneName
  <2> QED BY <1>1, <2>5, <2>6, NoNewHome DEF Homes
<1>5. ASSUME UNCHANGED <<entry, entryOnDisk>>, \A e \in Daemons : handle'[e] \in {handle[e], None}
      PROVE  Homes'
  <2>1. \A q \in Paths : \A i \in Inodes : Holds(q, i)' => Holds(q, i)
    BY <1>1, <1>5 DEF Holds
  <2> QED BY <1>1, <1>5, <2>1, NoNewHome DEF Homes, OneName
<1>6. ASSUME NEW d \in Daemons, ReadIdentity(d) \/ WriteTmp(d) \/ SyncTmp(d) \/ Stop(d)
      PROVE  UNCHANGED <<entry, entryOnDisk>> /\ \A e \in Daemons : handle'[e] \in {handle[e], None}
  BY <1>1, <1>6 DEF ReadIdentity, WriteTmp, SyncTmp, Stop, disk
<1>7. ASSUME NEW i \in Inodes, WriteBackData(i) PROVE UNCHANGED <<entry, entryOnDisk, handle>>
  BY <1>7 DEF WriteBackData
<1>8. CASE WriteBackEntries
  <2>1. entryOnDisk' = entry /\ UNCHANGED <<entry, handle>>
    BY <1>8 DEF WriteBackEntries
  <2>2. \A q \in Paths : \A i \in Inodes : Holds(q, i)' => Holds(q, i)
    BY <2>1 DEF Holds
  <2> QED BY <1>1, <2>1, <2>2, NoNewHome DEF Homes, OneName
<1>9. CASE PowerLoss
  <2>1. entry' = entryOnDisk /\ UNCHANGED entryOnDisk /\ \A e \in Daemons : handle'[e] = None
    BY <1>9 DEF PowerLoss, disk
  <2>2. \A q \in Paths : \A i \in Inodes : Holds(q, i)' => Holds(q, i)
    BY <1>1, <2>1 DEF Holds
  <2> QED BY <1>1, <2>1, <2>2, NoNewHome DEF Homes, OneName
<1>10. CASE UNCHANGED vars
  BY <1>5, <1>10 DEF vars, disk
<1> QED BY <1>2, <1>3, <1>4, <1>5, <1>6, <1>7, <1>8, <1>9, <1>10 DEF Next

-----------------------------------------------------------------------------
(* A path on which calls have not overlapped: how far the one call on it   *)
(* has come, and what the path and the temporary name hold meanwhile.      *)

Mine(i) == i \notin Foreign \cup {None}

OneCall(p) ==
  \A d, e \in Daemons : Path(d) = p /\ Path(e) = p /\ Loading(d) /\ Loading(e) => d = e

PathIsSafe(p) ==
  /\ Mine(entry[p]) => data[entry[p]] \in Keys /\ dataOnDisk[entry[p]] = data[entry[p]]
  /\ Mine(entryOnDisk[p]) => entry[p] = entryOnDisk[p]

CallIsAt(d, p) ==
  /\ at[d] = "opened" => handle[d] = entry[p]
  /\ at[d] \in {"generate", "created", "written", "synced"} => ~Mine(entry[p])
  /\ at[d] \in {"created", "written"} => handle[d] = entry[Tmp[p]]
  /\ at[d] = "written" => data[handle[d]] = key[d]
  /\ at[d] = "synced" => /\ entry[Tmp[p]] # None
                         /\ data[entry[Tmp[p]]] = key[d]
                         /\ dataOnDisk[entry[Tmp[p]]] = key[d]
  /\ at[d] = "running" => Mine(entry[p]) /\ data[entry[p]] = key[d]

Quiet(p) == OneCall(p) /\ PathIsSafe(p) /\ \A d \in Daemons : Path(d) = p => CallIsAt(d, p)

AllQuiet == \A p \in Paths \ raced : Quiet(p)

LEMMA QuietInit == Init => AllQuiet
<1> SUFFICES ASSUME Init, NEW p \in Paths PROVE Quiet(p)
  BY DEF AllQuiet
<1>1. ~Mine(entry[p]) /\ ~Mine(entryOnDisk[p])
  BY NamesOf DEF Init, Mine
<1>2. \A d \in Daemons : at[d] = "off"
  BY DEF Init
<1> QED BY <1>1, <1>2 DEF Quiet, OneCall, PathIsSafe, CallIsAt, Loading

\* A step that touches neither the path's names, nor its calls, nor its files.
Intact(p) ==
  /\ entry'[p] = entry[p] /\ entry'[Tmp[p]] = entry[Tmp[p]] /\ entryOnDisk'[p] = entryOnDisk[p]
  /\ \A e \in Daemons : Path(e) = p =>
       at'[e] = at[e] /\ key'[e] = key[e] /\ handle'[e] = handle[e]
  /\ \A i \in Inodes : Holds(p, i) => data'[i] = data[i] /\ dataOnDisk'[i] = dataOnDisk[i]

\* What is known of the types, once for all the steps.
LEMMA KnownTypes ==
  ASSUME Types
  PROVE  /\ at \in [Daemons -> {"off", "opened", "generate", "created", "written", "synced", "running"}]
         /\ key \in [Daemons -> Keys \cup {None}] /\ handle \in [Daemons -> Inodes \cup {None}]
         /\ entry \in [Names -> Inodes \cup {None}] /\ entryOnDisk \in [Names -> Inodes \cup {None}]
         /\ data \in [Inodes -> Keys \cup {Torn}] /\ dataOnDisk \in [Inodes -> Keys \cup {Torn}]
         /\ \A p \in Paths : /\ p \in Names /\ Tmp[p] \in Names /\ Tmp[p] \notin Paths
                             /\ entry[p] \in Inodes \cup {None} /\ entry[Tmp[p]] \in Inodes \cup {None}
                             /\ entryOnDisk[p] \in Inodes \cup {None}
         /\ \A d \in Daemons : Path(d) \in Paths
         /\ None \notin Inodes /\ None \notin Keys /\ Torn \notin Keys
         /\ Foreign \subseteq Inodes
BY IdentityAssumption, NamesOf DEF Types, TypeOK, Path

LEMMA IntactQuiet ==
  ASSUME Types, NEW p \in Paths, Quiet(p), Intact(p)
  PROVE  Quiet(p)'
<1>1. /\ entry[p] \in Inodes \cup {None} /\ entry[Tmp[p]] \in Inodes \cup {None}
      /\ \A e \in Daemons : handle[e] \in Inodes \cup {None}
      /\ \A e \in Daemons : at[e] \in {"opened", "created", "written"} => handle[e] # None
  BY KnownTypes DEF Types, HasFile
<1>2. OneCall(p)'
  BY DEF Quiet, OneCall, Intact, Loading, Path
<1>3. Mine(entry[p]) => /\ data'[entry[p]] = data[entry[p]]
                        /\ dataOnDisk'[entry[p]] = dataOnDisk[entry[p]]
  BY <1>1 DEF Mine, Intact, Holds
<1>4. PathIsSafe(p)'
  BY <1>3 DEF Quiet, PathIsSafe, Intact, Mine
<1>5. ASSUME NEW e \in Daemons, Path(e) = p PROVE CallIsAt(e, p)'
  <2>1. CallIsAt(e, p) /\ at'[e] = at[e] /\ key'[e] = key[e] /\ handle'[e] = handle[e]
    BY <1>5 DEF Quiet, Intact
  <2>2. handle[e] \in Inodes => data'[handle[e]] = data[handle[e]]
    BY <1>5 DEF Intact, Holds
  <2>3. entry[Tmp[p]] # None => /\ data'[entry[Tmp[p]]] = data[entry[Tmp[p]]]
                                /\ dataOnDisk'[entry[Tmp[p]]] = dataOnDisk[entry[Tmp[p]]]
    BY <1>1 DEF Intact, Holds
  <2> QED BY <1>1, <1>3, <2>1, <2>2, <2>3 DEF CallIsAt, Intact, Mine
<1> QED BY <1>2, <1>4, <1>5 DEF Quiet, Path

\* The steps of a process leave the other paths alone.
LEMMA OtherPaths ==
  ASSUME Types, Homes, NEW d \in Daemons, NEW p \in Paths, Path(d) # p,
         \/ OpenIdentity(d) \/ ReadIdentity(d) \/ CreateTmp(d) \/ WriteTmp(d)
         \/ SyncTmp(d) \/ Publish(d) \/ Stop(d)
  PROVE  Intact(p)
<1> DEFINE q == Path(d)
<1>1. /\ q \in Paths /\ q # p /\ Tmp[q] # p /\ Tmp[p] # q /\ Tmp[q] # Tmp[p]
      /\ q \in Names /\ Tmp[q] \in Names /\ p \in Names /\ Tmp[p] \in Names
  BY KnownTypes, IdentityAssumption
<1>2. \A i \in Inodes : Holds(q, i) => ~Holds(p, i)
  BY <1>1 DEF Homes, OneHome
<1> HIDE DEF q
<1>3. CASE OpenIdentity(d) \/ ReadIdentity(d) \/ Stop(d)
  BY <1>3, KnownTypes DEF OpenIdentity, ReadIdentity, Stop, Intact, disk, q
<1>4. CASE CreateTmp(d)
  <2>1. PICK i \in Inodes : /\ IF entry[Tmp[q]] = None THEN Unused(i) ELSE i = entry[Tmp[q]]
                            /\ entry' = [entry EXCEPT ![Tmp[q]] = i]
                            /\ data' = [data EXCEPT ![i] = Torn]
                            /\ handle' = [handle EXCEPT ![d] = i]
    BY <1>4 DEF CreateTmp, q
  <2>2. ~Holds(p, i)
    <3>1. CASE entry[Tmp[q]] = None
      BY <1>1, <2>1, <3>1 DEF Unused, Holds
    <3>2. CASE entry[Tmp[q]] # None
      BY <1>2, <2>1, <3>2 DEF Holds
    <3> QED BY <3>1, <3>2
  <2> QED BY <1>1, <1>4, <2>1, <2>2, KnownTypes DEF CreateTmp, Intact, disk, q
<1>5. CASE WriteTmp(d) \/ SyncTmp(d)
  <2>1. handle[d] \in Inodes /\ ~Holds(p, handle[d])
    BY <1>2, <1>5, KnownTypes DEF WriteTmp, SyncTmp, Types, HasFile, Holds, q
  <2> QED BY <1>5, <2>1, KnownTypes DEF WriteTmp, SyncTmp, Intact, disk, q
<1>6. CASE Publish(d)
  BY <1>1, <1>6, KnownTypes DEF Publish, Intact, disk, q
<1> QED BY <1>3, <1>4, <1>5, <1>6

-----------------------------------------------------------------------------
(* The steps of the path's own calls.                                      *)

\* While d is in a call, the path's other processes are not.
Others(d, p) == \A e \in Daemons \ {d} : Path(e) = p => at[e] \in {"off", "running"}

LEMMA OnlyOne ==
  ASSUME Types, NEW d \in Daemons, NEW p \in Paths, Path(d) = p, Quiet(p), Loading(d)
  PROVE  Others(d, p)
BY DEF Quiet, OneCall, Others, Loading

\* A step of d's call that others do not see.
LEMMA OwnStep ==
  ASSUME Types, NEW d \in Daemons, NEW p \in Paths, Path(d) = p, Quiet(p), Others(d, p),
         \A e \in Daemons \ {d} : at'[e] = at[e] /\ key'[e] = key[e],
         UNCHANGED entryOnDisk, entry'[p] = entry[p],
         Mine(entry[p]) => /\ data'[entry[p]] = data[entry[p]]
                           /\ dataOnDisk'[entry[p]] = dataOnDisk[entry[p]],
         CallIsAt(d, p)'
  PROVE  Quiet(p)'
<1>1. OneCall(p)'
  BY DEF OneCall, Others, Loading, Path
<1>2. PathIsSafe(p)'
  BY DEF Quiet, PathIsSafe, Mine
<1>3. ASSUME NEW e \in Daemons \ {d}, Path(e) = p PROVE CallIsAt(e, p)'
  <2>1. at'[e] \in {"off", "running"} /\ CallIsAt(e, p)
    BY <1>3 DEF Others, Quiet
  <2> QED BY <2>1 DEF CallIsAt, Mine
<1> QED BY <1>1, <1>2, <1>3 DEF Quiet, Path

LEMMA OwnOpen ==
  ASSUME Types, NEW d \in Daemons, NEW p \in Paths, Path(d) = p, Quiet(p), OpenIdentity(d), p \notin raced'
  PROVE  Quiet(p)'
<1>1. Others(d, p)
  BY KnownTypes DEF OpenIdentity, NoteOverlap, Others, Loading
<1>2. /\ UNCHANGED <<key, entry, data, entryOnDisk, dataOnDisk>>
      /\ \A e \in Daemons \ {d} : at'[e] = at[e]
  BY KnownTypes DEF OpenIdentity, disk
<1>3. CallIsAt(d, p)'
  <2>1. CASE entry[p] = None
    BY <1>2, <2>1, KnownTypes DEF OpenIdentity, CallIsAt, Mine
  <2>2. CASE entry[p] # None
    BY <1>2, <2>2, KnownTypes DEF OpenIdentity, CallIsAt, Mine
  <2> QED BY <2>1, <2>2
<1> QED BY <1>1, <1>2, <1>3, OwnStep

LEMMA OwnRead ==
  ASSUME Types, NEW d \in Daemons, NEW p \in Paths, Path(d) = p, Quiet(p), ReadIdentity(d)
  PROVE  Quiet(p)'
<1>1. Others(d, p)
  BY OnlyOne DEF ReadIdentity, Loading
<1>2. /\ UNCHANGED <<entry, data, entryOnDisk, dataOnDisk>>
      /\ \A e \in Daemons \ {d} : at'[e] = at[e] /\ key'[e] = key[e]
  BY KnownTypes DEF ReadIdentity, disk
<1>3. handle[d] = entry[p] /\ entry[p] \in Inodes
  BY KnownTypes DEF ReadIdentity, Quiet, CallIsAt, Types, HasFile
<1>4. CallIsAt(d, p)'
  <2>1. CASE data[handle[d]] # Torn
    <3>1. Mine(entry[p])
      BY <1>3, <2>1, KnownTypes DEF Mine, Types, ForeignTorn
    <3>2. at'[d] = "running" /\ key'[d] = data[entry[p]]
      BY <1>3, <2>1, KnownTypes DEF ReadIdentity
    <3> QED BY <1>2, <3>1, <3>2 DEF CallIsAt, Mine
  <2>2. CASE data[handle[d]] = Torn
    <3>1. ~Mine(entry[p])
      BY <1>3, <2>2, KnownTypes DEF Quiet, PathIsSafe
    <3>2. at'[d] = "generate"
      BY <2>2, KnownTypes DEF ReadIdentity
    <3> QED BY <1>2, <3>1, <3>2 DEF CallIsAt, Mine
  <2> QED BY <2>1, <2>2
<1> QED BY <1>1, <1>2, <1>4, OwnStep

LEMMA OwnCreate ==
  ASSUME Types, Homes, NEW d \in Daemons, NEW p \in Paths, Path(d) = p, Quiet(p), CreateTmp(d)
  PROVE  Quiet(p)'
<1>1. Others(d, p) /\ ~Mine(entry[p])
  BY OnlyOne DEF CreateTmp, Loading, Quiet, CallIsAt
<1>2. PICK i \in Inodes : /\ entry' = [entry EXCEPT ![Tmp[p]] = i]
                          /\ data' = [data EXCEPT ![i] = Torn]
                          /\ handle' = [handle EXCEPT ![d] = i]
  BY DEF CreateTmp
<1>3. /\ UNCHANGED <<entryOnDisk, dataOnDisk>> /\ at'[d] = "created"
      /\ \A e \in Daemons \ {d} : at'[e] = at[e] /\ key'[e] = key[e]
  BY KnownTypes DEF CreateTmp, disk
<1>4. entry'[p] = entry[p] /\ handle'[d] = entry'[Tmp[p]]
  BY <1>2, KnownTypes
<1>5. CallIsAt(d, p)'
  BY <1>1, <1>3, <1>4 DEF CallIsAt, Mine
<1> QED BY <1>1, <1>3, <1>4, <1>5, OwnStep

LEMMA OwnWrite ==
  ASSUME Types, NEW d \in Daemons, NEW p \in Paths, Path(d) = p, Quiet(p), WriteTmp(d) \/ SyncTmp(d)
  PROVE  Quiet(p)'
<1>1. /\ Others(d, p) /\ ~Mine(entry[p])
      /\ handle[d] = entry[Tmp[p]] /\ handle[d] \in Inodes /\ handle[d] # None
  BY OnlyOne, KnownTypes DEF WriteTmp, SyncTmp, Loading, Quiet, CallIsAt, Types, HasFile
<1>2. /\ UNCHANGED <<key, entry, entryOnDisk>>
      /\ \A e \in Daemons \ {d} : at'[e] = at[e]
  BY KnownTypes DEF WriteTmp, SyncTmp, disk
<1>3. CASE WriteTmp(d)
  <2>1. at'[d] = "written" /\ handle'[d] = handle[d] /\ data'[handle[d]] = key[d]
    BY <1>1, <1>3, KnownTypes DEF WriteTmp
  <2>2. CallIsAt(d, p)'
    BY <1>1, <1>2, <2>1 DEF CallIsAt, Mine
  <2> QED BY <1>1, <1>2, <2>2, OwnStep
<1>4. CASE SyncTmp(d)
  <2>1. data[handle[d]] = key[d]
    BY <1>4 DEF SyncTmp, Quiet, CallIsAt
  <2>2. at'[d] = "synced" /\ data' = data /\ dataOnDisk'[handle[d]] = key[d]
    BY <1>1, <1>4, <2>1, KnownTypes DEF SyncTmp
  <2>3. CallIsAt(d, p)'
    BY <1>1, <1>2, <2>1, <2>2 DEF CallIsAt, Mine
  <2> QED BY <1>1, <1>2, <2>3, OwnStep
<1> QED BY <1>3, <1>4

LEMMA OwnPublish ==
  ASSUME Types, NEW d \in Daemons, NEW p \in Paths, Path(d) = p, Quiet(p), Publish(d)
  PROVE  Quiet(p)'
<1> DEFINE f == entry[Tmp[p]]
<1>1. /\ Others(d, p) /\ ~Mine(entry[p]) /\ ~Mine(entryOnDisk[p])
      /\ f # None /\ data[f] = key[d] /\ dataOnDisk[f] = key[d]
  BY OnlyOne DEF Publish, Loading, Quiet, CallIsAt, PathIsSafe
<1>2. Mine(f) /\ key[d] \in Keys
  BY <1>1, KnownTypes DEF Publish, Mine, Types, Ours, HasKey
<1>3. /\ entry'[p] = f /\ UNCHANGED <<key, data, entryOnDisk, dataOnDisk>> /\ at'[d] = "running"
      /\ \A e \in Daemons \ {d} : at'[e] = at[e]
  BY KnownTypes DEF Publish, disk
<1> HIDE DEF f
<1>4. OneCall(p)'
  BY <1>1, <1>3 DEF OneCall, Others, Loading, Path
<1>5. PathIsSafe(p)'
  BY <1>1, <1>2, <1>3 DEF PathIsSafe
<1>6. ASSUME NEW e \in Daemons, Path(e) = p PROVE CallIsAt(e, p)'
  <2>1. CASE e = d
    BY <1>1, <1>2, <1>3, <2>1 DEF CallIsAt
  <2>2. CASE e # d
    <3>1. at'[e] = "off"
      BY <1>1, <1>3, <1>6, <2>2 DEF Others, Quiet, CallIsAt
    <3> QED BY <3>1 DEF CallIsAt
  <2> QED BY <2>1, <2>2
<1> QED BY <1>4, <1>5, <1>6 DEF Quiet, Path

LEMMA OwnStop ==
  ASSUME Types, NEW d \in Daemons, NEW p \in Paths, Path(d) = p, Quiet(p), Stop(d)
  PROVE  Quiet(p)'
<1>1. /\ UNCHANGED <<entry, data, entryOnDisk, dataOnDisk>> /\ at'[d] = "off"
      /\ \A e \in Daemons \ {d} : at'[e] = at[e] /\ key'[e] = key[e] /\ handle'[e] = handle[e]
  BY KnownTypes DEF Stop, disk
<1>2. OneCall(p)'
  BY <1>1 DEF Quiet, OneCall, Loading, Path
<1>3. PathIsSafe(p)'
  BY <1>1 DEF Quiet, PathIsSafe, Mine
<1>4. ASSUME NEW e \in Daemons, Path(e) = p PROVE CallIsAt(e, p)'
  BY <1>1, <1>4 DEF Quiet, CallIsAt, Mine
<1> QED BY <1>2, <1>3, <1>4 DEF Quiet, Path

-----------------------------------------------------------------------------
(* The steps of the file system.                                           *)

LEMMA QuietWriteBackData ==
  ASSUME Types, NEW p \in Paths, Quiet(p), NEW i \in Inodes, WriteBackData(i)
  PROVE  Quiet(p)'
<1>1. /\ UNCHANGED <<at, key, handle, entry, data, entryOnDisk>> /\ data[i] # dataOnDisk[i]
      /\ \A j \in Inodes \ {i} : dataOnDisk'[j] = dataOnDisk[j]
  BY KnownTypes DEF WriteBackData
<1>2. \A j \in Inodes : data[j] = dataOnDisk[j] => dataOnDisk'[j] = dataOnDisk[j]
  BY <1>1
<1>3. PathIsSafe(p)'
  BY <1>1, <1>2, KnownTypes DEF Quiet, PathIsSafe, Mine
<1>4. ASSUME NEW d \in Daemons, Path(d) = p PROVE CallIsAt(d, p)'
  BY <1>1, <1>2, <1>4, KnownTypes DEF Quiet, CallIsAt, Mine
<1>5. OneCall(p)'
  BY <1>1 DEF Quiet, OneCall, Loading, Path
<1> QED BY <1>3, <1>4, <1>5 DEF Quiet, Path

LEMMA QuietWriteBackEntries ==
  ASSUME NEW p \in Paths, Quiet(p), WriteBackEntries
  PROVE  Quiet(p)'
BY DEF WriteBackEntries, Quiet, OneCall, PathIsSafe, CallIsAt, Loading, Mine, Path

LEMMA QuietPowerLoss ==
  ASSUME NEW p \in Paths, Quiet(p), PowerLoss
  PROVE  Quiet(p)'
<1>1. /\ \A d \in Daemons : at'[d] = "off"
      /\ entry' = entryOnDisk /\ data' = dataOnDisk /\ UNCHANGED <<entryOnDisk, dataOnDisk>>
  BY DEF PowerLoss, disk
<1>2. PathIsSafe(p)'
  BY <1>1 DEF Quiet, PathIsSafe
<1> QED BY <1>1, <1>2 DEF Quiet, OneCall, CallIsAt, Loading

LEMMA QuietStep ==
  ASSUME Types, Homes, AllQuiet, [Next]_vars
  PROVE  AllQuiet'
<1>1. raced \subseteq raced'
  BY DEF Next, vars, OpenIdentity, NoteOverlap, ReadIdentity, CreateTmp, WriteTmp, SyncTmp, Publish,
         Stop, WriteBackData, WriteBackEntries, PowerLoss
<1> SUFFICES ASSUME NEW p \in Paths, p \notin raced' PROVE Quiet(p)'
  BY DEF AllQuiet
<1>2. Quiet(p)
  BY <1>1 DEF AllQuiet
<1>3. ASSUME NEW d \in Daemons,
             \/ OpenIdentity(d) \/ ReadIdentity(d) \/ CreateTmp(d) \/ WriteTmp(d)
             \/ SyncTmp(d) \/ Publish(d) \/ Stop(d)
      PROVE  Quiet(p)'
  <2>1. CASE Path(d) = p
    BY <1>2, <1>3, <2>1, OwnOpen, OwnRead, OwnCreate, OwnWrite, OwnPublish, OwnStop
  <2>2. CASE Path(d) # p
    BY <1>2, <1>3, <2>2, OtherPaths, IntactQuiet
  <2> QED BY <2>1, <2>2
<1>4. CASE UNCHANGED vars
  <2>1. Intact(p)
    BY <1>4 DEF vars, Intact, disk
  <2> QED BY <1>2, <2>1, IntactQuiet
<1> QED BY <1>2, <1>3, <1>4, QuietWriteBackData, QuietWriteBackEntries, QuietPowerLoss DEF Next

-----------------------------------------------------------------------------
(* What follows.                                                           *)

IInv == Types /\ Homes /\ AllQuiet

LEMMA Always == Spec => []IInv
<1>1. Init => IInv
  BY TypesInit, HomesInit, QuietInit DEF IInv
<1>2. IInv /\ [Next]_vars => IInv'
  BY TypesStep, HomesStep, QuietStep DEF IInv
<1> QED BY <1>1, <1>2, PTL DEF Spec

\* The variables of the identity protocol keep their types; no process ever
\* takes a file of the wrong size for a key (identity.rs:24).
THEOREM IdentityTypes == Spec => []TypeOK
<1>1. IInv => TypeOK
  BY DEF IInv, Types
<1> QED BY <1>1, Always, PTL

\* Wherever processes stop and whenever power is lost, a path on which no two
\* calls have overlapped holds no torn file of the daemon's (identity.rs:76-83).
THEOREM NeverTorn == Spec => []WholeUnlessRaced
<1>1. IInv => WholeUnlessRaced
  <2> SUFFICES ASSUME IInv, NEW p \in Paths, p \notin raced
               PROVE  /\ entry[p] \notin Foreign => Stored(p) # Torn
                      /\ entryOnDisk[p] \notin Foreign => StoredOnDisk(p) # Torn
    BY DEF WholeUnlessRaced
  <2>1. PathIsSafe(p) /\ None # Torn /\ Torn \notin Keys
    BY IdentityAssumption DEF IInv, AllQuiet, Quiet
  <2>2. entry[p] \notin Foreign => Stored(p) # Torn
    BY <2>1 DEF PathIsSafe, Mine, Stored
  <2>3. entryOnDisk[p] \notin Foreign => StoredOnDisk(p) # Torn
    BY <2>1 DEF PathIsSafe, Mine, StoredOnDisk
  <2> QED BY <2>2, <2>3
<1> QED BY <1>1, Always, PTL

\* A process that runs under a key would find it again at its path, as long as
\* no two calls on the path have overlapped (load_or_generate_identity).
THEOREM KeyIsStored == Spec => []RunningKeyIsStored
<1>1. IInv => RunningKeyIsStored
  BY KnownTypes DEF IInv, AllQuiet, Quiet, CallIsAt, Mine, RunningKeyIsStored, Stored
<1> QED BY <1>1, Always, PTL

\* A key at the path is in a file of the daemon's, and one that is there on
\* disk is the one that is there now.
LEMMA StoredKeys ==
  ASSUME Types, NEW p \in Paths, Quiet(p)
  PROVE  /\ Stored(p) \in Keys => entry[p] \in Inodes /\ Mine(entry[p]) /\ Stored(p) = data[entry[p]]
         /\ StoredOnDisk(p) \in Keys =>
              /\ entryOnDisk[p] \in Inodes /\ entry[p] = entryOnDisk[p]
              /\ Mine(entry[p]) /\ StoredOnDisk(p) = dataOnDisk[entry[p]]
              /\ data[entry[p]] = dataOnDisk[entry[p]]
<1>1. Stored(p) \in Keys => entry[p] \in Inodes /\ Mine(entry[p]) /\ Stored(p) = data[entry[p]]
  BY KnownTypes DEF Stored, Mine, Types, ForeignTorn
<1>2. StoredOnDisk(p) \in Keys => /\ entryOnDisk[p] \in Inodes /\ Mine(entryOnDisk[p])
                                 /\ StoredOnDisk(p) = dataOnDisk[entryOnDisk[p]]
  BY KnownTypes DEF StoredOnDisk, Mine, Types, ForeignTorn
<1> QED BY <1>1, <1>2 DEF Quiet, PathIsSafe

\* A step that leaves the path's entries and the data of its file.
LEMMA KeptIfIntact ==
  ASSUME Types, NEW p \in Paths, Quiet(p),
         entry'[p] = entry[p], entryOnDisk'[p] = entryOnDisk[p],
         Mine(entry[p]) => /\ data'[entry[p]] = data[entry[p]]
                           /\ dataOnDisk'[entry[p]] = dataOnDisk[entry[p]]
  PROVE  KeyIsKept(p)
BY StoredKeys, KnownTypes DEF KeyIsKept, Stored, StoredOnDisk, Mine

LEMMA KeptStep ==
  ASSUME Types, Homes, NEW p \in Paths, Quiet(p), [Next]_vars
  PROVE  KeyIsKept(p)
<1>1. ASSUME NEW d \in Daemons, Path(d) = p, OpenIdentity(d) \/ ReadIdentity(d) \/ Stop(d)
      PROVE  KeyIsKept(p)
  BY <1>1, KeptIfIntact DEF OpenIdentity, ReadIdentity, Stop, disk
<1>2. ASSUME NEW d \in Daemons, Path(d) = p,
             CreateTmp(d) \/ WriteTmp(d) \/ SyncTmp(d) \/ Publish(d)
      PROVE  KeyIsKept(p)
  <2>1. ~Mine(entry[p])
    BY <1>2 DEF CreateTmp, WriteTmp, SyncTmp, Publish, Quiet, CallIsAt
  <2> QED BY <2>1, StoredKeys DEF KeyIsKept
<1>3. ASSUME NEW d \in Daemons, Path(d) # p,
             \/ OpenIdentity(d) \/ ReadIdentity(d) \/ CreateTmp(d) \/ WriteTmp(d)
             \/ SyncTmp(d) \/ Publish(d) \/ Stop(d)
      PROVE  KeyIsKept(p)
  <2>1. Intact(p)
    BY <1>3, OtherPaths
  <2> QED BY <2>1, KeptIfIntact, KnownTypes DEF Intact, Holds, Mine
<1>4. ASSUME NEW i \in Inodes, WriteBackData(i) PROVE KeyIsKept(p)
  <2>1. /\ UNCHANGED <<entry, data, entryOnDisk>> /\ data[i] # dataOnDisk[i]
        /\ \A j \in Inodes \ {i} : dataOnDisk'[j] = dataOnDisk[j]
    BY <1>4, KnownTypes DEF WriteBackData
  <2>2. Mine(entry[p]) => dataOnDisk'[entry[p]] = dataOnDisk[entry[p]]
    BY <2>1, KnownTypes DEF Quiet, PathIsSafe, Mine
  <2> QED BY <2>1, <2>2, KeptIfIntact
<1>5. CASE WriteBackEntries
  BY <1>5, StoredKeys, KnownTypes DEF WriteBackEntries, KeyIsKept, Stored, StoredOnDisk, Mine
<1>6. CASE PowerLoss
  BY <1>6 DEF PowerLoss, disk, KeyIsKept, Stored, StoredOnDisk
<1>7. CASE UNCHANGED vars
  BY <1>7, KeptIfIntact DEF vars, disk
<1> QED BY <1>1, <1>2, <1>3, <1>4, <1>5, <1>6, <1>7 DEF Next

\* The key at such a path is never replaced: only a loss of power takes it
\* back, and once the rename is on disk nothing does.
THEOREM KeyStays == Spec => IdentityIsKept
<1>1. ASSUME IInv, [Next]_vars PROVE \A p \in Paths \ raced' : KeyIsKept(p)
  <2> SUFFICES ASSUME NEW p \in Paths, p \notin raced' PROVE KeyIsKept(p)
    OBVIOUS
  <2>1. raced \subseteq raced'
    BY <1>1 DEF Next, vars, OpenIdentity, NoteOverlap, ReadIdentity, CreateTmp, WriteTmp, SyncTmp,
           Publish, Stop, WriteBackData, WriteBackEntries, PowerLoss
  <2>2. Quiet(p)
    BY <1>1, <2>1 DEF IInv, AllQuiet
  <2> QED BY <1>1, <2>2, KeptStep DEF IInv
<1> QED BY <1>1, Always, PTL DEF Spec, IdentityIsKept
=============================================================================
