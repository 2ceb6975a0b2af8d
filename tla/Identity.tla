------------------------------- MODULE Identity -----------------------------
(***************************************************************************)
(* The identity file of a daemon (daemon/src/crypto/identity.rs).  Calls   *)
(* of load_or_generate_identity read a key file or, when there is none of  *)
(* the right size, write a new key to a temporary file, sync it and rename *)
(* it over the path.  Processes may stop, and the machine lose power, at   *)
(* any step; what the file system has not written back is then lost.       *)
(*                                                                         *)
(* A file's data is a whole key or Torn, which stands for every length but *)
(* 64 bytes.  Keys are fresh.  The rename and the entry of a new file are  *)
(* on disk once the directory has been written back as a whole, which the  *)
(* code does not ask for.                                                  *)
(***************************************************************************)
EXTENDS Naturals

CONSTANTS
  Daemons,   \* processes
  Paths,     \* identity paths
  PathOf,    \* each process's IDENTITY_PATH
  Tmp,       \* path.with_extension("tmp")
  Inodes,    \* files
  Foreign,   \* files that were there first, put there by others
  Keys, Torn, None

Names == Paths \cup {Tmp[p] : p \in Paths}

ASSUME IdentityAssumption ==
  /\ PathOf \in [Daemons -> Paths]
  /\ Tmp \in [Paths -> Names \ Paths]
  /\ \A p, q \in Paths : Tmp[p] = Tmp[q] => p = q
  /\ Foreign \subseteq Inodes
  /\ None \notin Inodes \cup Keys \cup {Torn}
  /\ Torn \notin Keys

VARIABLES
  at,        \* where each process is
  key,       \* the keypair it has in memory
  handle,    \* the file it has open
  entry,     \* the directory
  data,      \* the contents of the files
  entryOnDisk, dataOnDisk,   \* the same after a loss of power
  minted,    \* history: the keys generated so far
  raced      \* history: the paths on which two calls have overlapped

vars == <<at, key, handle, entry, data, entryOnDisk, dataOnDisk, minted, raced>>
disk == <<entryOnDisk, dataOnDisk>>

TypeOK ==
  /\ at \in [Daemons -> {"off", "opened", "generate", "created", "written", "synced", "running"}]
  /\ key \in [Daemons -> Keys \cup {None}]
  /\ handle \in [Daemons -> Inodes \cup {None}]
  /\ entry \in [Names -> Inodes \cup {None}]
  /\ data \in [Inodes -> Keys \cup {Torn}]
  /\ entryOnDisk \in [Names -> Inodes \cup {None}]
  /\ dataOnDisk \in [Inodes -> Keys \cup {Torn}]
  /\ minted \subseteq Keys
  /\ raced \subseteq Paths

\* A path is free or holds a file of the wrong size.
Init ==
  /\ at = [d \in Daemons |-> "off"]
  /\ key = [d \in Daemons |-> None]
  /\ handle = [d \in Daemons |-> None]
  /\ entry \in [Names -> Foreign \cup {None}]
  /\ \A n \in Names \ Paths : entry[n] = None
  /\ \A p, q \in Paths : entry[p] = entry[q] => p = q \/ entry[p] = None
  /\ data = [i \in Inodes |-> Torn]
  /\ entryOnDisk = entry
  /\ dataOnDisk = data
  /\ minted = {}
  /\ raced = {}

Path(d) == PathOf[d]
Loading(d) == at[d] \notin {"off", "running"}

-----------------------------------------------------------------------------
(* One call of load_or_generate_identity.                                  *)

NoteOverlap(d) ==
  raced' = IF \E e \in Daemons \ {d} : Path(e) = Path(d) /\ Loading(e)
           THEN raced \cup {Path(d)} ELSE raced

\* An open that fails for any reason is taken for a missing file.
OpenIdentityAnyError(d) ==
  /\ at[d] = "off"
  /\ at' = [at EXCEPT ![d] = "generate"]
  /\ NoteOverlap(d)
  /\ UNCHANGED <<key, handle, entry, data, disk, minted>>

\* File::open: no file leads to a new key.
OpenIdentity(d) ==
  /\ at[d] = "off"
  /\ \/ /\ entry[Path(d)] = None
        /\ at' = [at EXCEPT ![d] = "generate"]
        /\ UNCHANGED handle
     \/ /\ entry[Path(d)] # None
        /\ at' = [at EXCEPT ![d] = "opened"]
        /\ handle' = [handle EXCEPT ![d] = entry[Path(d)]]
  /\ NoteOverlap(d)
  /\ UNCHANGED <<key, entry, data, disk, minted>>

\* The size check dropped, and inverted.
ReadIdentityOfAnySize(d) ==
  /\ at[d] = "opened"
  /\ at' = [at EXCEPT ![d] = "running"]
  /\ key' = [key EXCEPT ![d] = data[handle[d]]]
  /\ handle' = [handle EXCEPT ![d] = None]
  /\ UNCHANGED <<entry, data, disk, minted, raced>>

ReadIdentityNever(d) ==
  /\ at[d] = "opened"
  /\ at' = [at EXCEPT ![d] = "generate"]
  /\ handle' = [handle EXCEPT ![d] = None]
  /\ UNCHANGED <<key, entry, data, disk, minted, raced>>

\* read_to_end: 64 bytes are the keypair, anything else is replaced.
ReadIdentity(d) ==
  /\ at[d] = "opened"
  /\ \/ /\ data[handle[d]] # Torn
        /\ at' = [at EXCEPT ![d] = "running"]
        /\ key' = [key EXCEPT ![d] = data[handle[d]]]
     \/ /\ data[handle[d]] = Torn
        /\ at' = [at EXCEPT ![d] = "generate"]
        /\ UNCHANGED key
  /\ handle' = [handle EXCEPT ![d] = None]
  /\ UNCHANGED <<entry, data, disk, minted, raced>>

Unused(i) ==
  /\ i \notin Foreign
  /\ \A n \in Names : entry[n] # i /\ entryOnDisk[n] # i
  /\ \A e \in Daemons : handle[e] # i

\* generate_keypair, and the open that creates or truncates the temporary file.
CreateTmp(d) ==
  LET t == Tmp[Path(d)] IN
  /\ at[d] = "generate"
  /\ \E k \in Keys \ minted :
       key' = [key EXCEPT ![d] = k] /\ minted' = minted \cup {k}
  /\ \E i \in Inodes :
       /\ IF entry[t] = None THEN Unused(i) ELSE i = entry[t]
       /\ entry' = [entry EXCEPT ![t] = i]
       /\ data' = [data EXCEPT ![i] = Torn]
       /\ handle' = [handle EXCEPT ![d] = i]
  /\ at' = [at EXCEPT ![d] = "created"]
  /\ UNCHANGED <<disk, raced>>

\* write_all.
WriteTmp(d) ==
  /\ at[d] = "created"
  /\ data' = [data EXCEPT ![handle[d]] = key[d]]
  /\ at' = [at EXCEPT ![d] = "written"]
  /\ UNCHANGED <<key, handle, entry, disk, minted, raced>>

SyncTmpForgotten(d) ==
  /\ at[d] = "written"
  /\ handle' = [handle EXCEPT ![d] = None]
  /\ at' = [at EXCEPT ![d] = "synced"]
  /\ UNCHANGED <<key, entry, data, disk, minted, raced>>

\* sync_all: the data of the file, not its directory; then the file is closed.
SyncTmp(d) ==
  /\ at[d] = "written"
  /\ dataOnDisk' = [dataOnDisk EXCEPT ![handle[d]] = data[handle[d]]]
  /\ handle' = [handle EXCEPT ![d] = None]
  /\ at' = [at EXCEPT ![d] = "synced"]
  /\ UNCHANGED <<key, entry, data, entryOnDisk, minted, raced>>

\* rename.
Publish(d) ==
  LET t == Tmp[Path(d)] IN
  /\ at[d] = "synced"
  /\ entry[t] # None
  /\ entry' = [entry EXCEPT ![Path(d)] = entry[t], ![t] = None]
  /\ at' = [at EXCEPT ![d] = "running"]
  /\ UNCHANGED <<key, handle, data, disk, minted, raced>>

\* An error return (of the open, write, sync or rename), an exit or a kill.
Stop(d) ==
  /\ at[d] # "off"
  /\ at' = [at EXCEPT ![d] = "off"]
  /\ key' = [key EXCEPT ![d] = None]
  /\ handle' = [handle EXCEPT ![d] = None]
  /\ UNCHANGED <<entry, data, disk, minted, raced>>

-----------------------------------------------------------------------------
(* The file system.                                                        *)

WriteBackData(i) ==
  /\ data[i] # dataOnDisk[i]
  /\ \E v \in {data[i], Torn} : dataOnDisk' = [dataOnDisk EXCEPT ![i] = v]
  /\ UNCHANGED <<at, key, handle, entry, data, entryOnDisk, minted, raced>>

WriteBackEntries ==
  /\ entryOnDisk' = entry
  /\ UNCHANGED <<at, key, handle, entry, data, dataOnDisk, minted, raced>>

PowerLoss ==
  /\ at' = [d \in Daemons |-> "off"]
  /\ key' = [d \in Daemons |-> None]
  /\ handle' = [d \in Daemons |-> None]
  /\ entry' = entryOnDisk
  /\ data' = dataOnDisk
  /\ UNCHANGED <<disk, minted, raced>>

-----------------------------------------------------------------------------
Next ==
  \/ \E d \in Daemons :
       \/ OpenIdentity(d) \/ ReadIdentity(d) \/ CreateTmp(d) \/ WriteTmp(d)
       \/ SyncTmp(d) \/ Publish(d) \/ Stop(d)
  \/ \E i \in Inodes : WriteBackData(i)
  \/ WriteBackEntries
  \/ PowerLoss

Spec == Init /\ [][Next]_vars

-----------------------------------------------------------------------------
(* What holds of a path on which calls have not overlapped.                *)

Stored(p) == IF entry[p] = None THEN None ELSE data[entry[p]]
StoredOnDisk(p) == IF entryOnDisk[p] = None THEN None ELSE dataOnDisk[entryOnDisk[p]]

(* Wherever processes stop and whenever power is lost, what the daemon has *)
(* put at the path is a whole key (the sync before the rename,             *)
(* identity.rs:76-83).                                                     *)
WholeUnlessRaced ==
  \A p \in Paths \ raced :
    /\ entry[p] \notin Foreign => Stored(p) # Torn
    /\ entryOnDisk[p] \notin Foreign => StoredOnDisk(p) # Torn

(* Whoever runs under a key would find it again, and so every process of   *)
(* the path runs under the same one.                                       *)
RunningKeyIsStored ==
  \A d \in Daemons : at[d] = "running" /\ Path(d) \notin raced => Stored(Path(d)) = key[d]

(* A key that is at the path stays there, unless power is lost before the  *)
(* rename is on disk; a key that is there on disk stays for ever.          *)
KeyIsKept(p) ==
  /\ Stored(p) \in Keys => Stored(p)' = Stored(p) \/ entry' = entryOnDisk
  /\ StoredOnDisk(p) \in Keys => /\ Stored(p)' = StoredOnDisk(p)
                                 /\ StoredOnDisk(p)' = StoredOnDisk(p)
IdentityIsKept == [][\A p \in Paths \ raced' : KeyIsKept(p)]_vars
=============================================================================
