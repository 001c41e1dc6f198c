------------------------------- MODULE Storage -------------------------------
(* The storage of one plugin: StoreMixin (storage/__init__.py) over a memory or  *)
(* a shelf store (storage/memory.py, storage/shelf.py). Sections of              *)
(* "with self.mutable(key)" run in commands on several threads, while admin      *)
(* commands deactivate and activate the plugin and the process may crash.        *)
(*                                                                               *)
(* A value is the set of the sections whose change it holds.                     *)
EXTENDS Naturals, FiniteSets

CONSTANTS
    Sections,   \* the sections run, each at most once
    Keys,       \* the keys of the plugin
    MaxReopens, \* bound on deactivations and crashes
    Absent,     \* no such key: KeyError
    NoFile      \* nothing saved

Values == SUBSET Sections
Contents == [Keys -> Sections \cup Values \cup {Absent}]

ASSUME StorageAssumption ==
    /\ MaxReopens \in Nat /\ Absent \notin Sections
    /\ \A value \in Values : value # Absent
    /\ \A contents \in Contents : contents # NoFile

VARIABLES
    kind,     \* STORAGE: "memory" or "shelf"
    isOpen,   \* is_open_storage
    heap,     \* the objects in memory, named for the section each was made for
    store,    \* what the open store holds: an object of the heap (memory) or a
              \* pickled value (shelf) for each key
    saved,    \* what outlives the store: ROOTS[namespace], or the file of the shelf
    legacy,   \* the file of an old version in plugins/, until it is moved
    section,  \* each section: its step, its key, the object it works on
    overlapped, \* the sections that ran beside another on the same key
    reopens

storageVars == <<kind, isOpen, heap, store, saved, legacy, section, overlapped, reopens>>

Nothing == [k \in Keys |-> Absent]
Old == [k \in Keys |-> {}]   \* what an old version had stored

StorageTypeOK ==
    /\ kind \in {"memory", "shelf"} /\ isOpen \in BOOLEAN
    /\ heap \in [Sections -> Values]
    /\ store \in Contents /\ saved \in Contents \cup {NoFile}
    /\ legacy \in BOOLEAN
    /\ section \in [Sections -> [at : {"new", "in", "done", "failed", "lost"}, key : Keys,
                                 ref : Sections]]
    /\ overlapped \subseteq Sections /\ reopens \in 0..MaxReopens

StorageInit ==
    /\ kind \in {"memory", "shelf"}
    /\ isOpen = FALSE /\ store = Nothing
    /\ heap = [s \in Sections |-> {}]
    /\ saved \in IF kind = "shelf" THEN {NoFile, Old} ELSE {NoFile}
    /\ legacy \in IF kind = "shelf" THEN BOOLEAN ELSE {FALSE}
    /\ \E key \in [Sections -> Keys] :
          section = [s \in Sections |-> [at |-> "new", key |-> key[s], ref |-> s]]
    /\ overlapped = {} /\ reopens = 0

In(s) == section[s].at = "in"
Key(s) == section[s].key

-----------------------------------------------------------------------------
(* open_storage; an open one raises StoreAlreadyOpenError. A memory store takes  *)
(* ROOTS[namespace] or a new dict; a shelf moves an old version's file into      *)
(* place unless there is a newer one.                                            *)
OpenStorage ==
    /\ ~isOpen /\ isOpen' = TRUE
    /\ store' = IF saved # NoFile THEN saved ELSE IF legacy THEN Old ELSE Nothing
    /\ saved' = IF kind = "shelf" THEN store' ELSE saved
    /\ legacy' = (legacy /\ saved # NoFile)
    /\ UNCHANGED <<kind, heap, section, overlapped, reopens>>

\* Mutant: closing drops the store without putting it back.
CloseStorageForgets ==
    /\ isOpen /\ isOpen' = FALSE
    /\ reopens < MaxReopens /\ reopens' = reopens + 1
    /\ store' = Nothing
    /\ UNCHANGED <<kind, heap, saved, legacy, section, overlapped>>

(* close_storage; a closed one raises StoreNotOpenError. Only now does a memory  *)
(* store go back to ROOTS.                                                       *)
CloseStorage ==
    /\ isOpen /\ isOpen' = FALSE
    /\ reopens < MaxReopens /\ reopens' = reopens + 1
    /\ saved' = store
    /\ store' = Nothing
    /\ UNCHANGED <<kind, heap, legacy, section, overlapped>>

(* mutable() up to the yield. A memory store hands out the very object it holds, *)
(* a shelf an unpickled copy; a missing key gives the default, here empty.       *)
Enter(s) ==
    /\ section[s].at = "new" /\ isOpen
    /\ LET there == store[Key(s)]
           rivals == {t \in Sections \ {s} : In(t) /\ Key(t) = Key(s)}
           ref == IF kind = "memory" /\ there # Absent THEN there ELSE s
       IN /\ section' = [section EXCEPT ![s].at = "in", ![s].ref = ref]
          /\ heap' = IF kind = "shelf" /\ there # Absent THEN [heap EXCEPT ![s] = there] ELSE heap
          /\ overlapped' = IF rivals = {} THEN overlapped ELSE overlapped \cup rivals \cup {s}
    /\ UNCHANGED <<kind, isOpen, store, saved, legacy, reopens>>

(* The body changes the object and comes back: the object is stored. When the    *)
(* plugin was deactivated meanwhile, _store is None and the section fails.       *)
Leave(s) ==
    /\ In(s)
    /\ LET ref == section[s].ref
       IN /\ heap' = [heap EXCEPT ![ref] = @ \cup {s}]
          /\ section' = [section EXCEPT ![s].at = IF isOpen THEN "done" ELSE "failed"]
          /\ store' = IF isOpen
                      THEN [store EXCEPT ![Key(s)] = IF kind = "memory" THEN ref ELSE heap'[ref]]
                      ELSE store
          /\ saved' = IF kind = "shelf" /\ isOpen THEN store' ELSE saved
    /\ UNCHANGED <<kind, isOpen, legacy, overlapped, reopens>>

(* The body changes the object and raises: nothing is stored.                    *)
Raise(s) ==
    /\ In(s)
    /\ section' = [section EXCEPT ![s].at = "failed"]
    /\ heap' = [heap EXCEPT ![section[s].ref] = @ \cup {s}]
    /\ UNCHANGED <<kind, isOpen, store, saved, legacy, overlapped, reopens>>

(* The process dies, and a memory store with it; the next one opens again.       *)
ProcessDies ==
    /\ reopens < MaxReopens /\ reopens' = reopens + 1
    /\ isOpen' = FALSE /\ store' = Nothing
    /\ saved' = IF kind = "shelf" THEN saved ELSE NoFile
    /\ section' = [s \in Sections |-> [section[s] EXCEPT !.at =
                       IF @ = "in" \/ (@ = "done" /\ kind = "memory") THEN "lost" ELSE @]]
    /\ UNCHANGED <<kind, heap, legacy, overlapped>>

StorageNext ==
    \/ OpenStorage
    \/ CloseStorage
    \/ \E s \in Sections : Enter(s)
    \/ \E s \in Sections : Leave(s)
    \/ \E s \in Sections : Raise(s)
    \/ ProcessDies

StorageSpec == StorageInit /\ [][StorageNext]_storageVars

-----------------------------------------------------------------------------
(* The sections whose changes the key holds, open or not.                        *)
Kept(k) ==
    LET there == IF isOpen THEN store ELSE IF saved = NoFile THEN Nothing ELSE saved
    IN IF there[k] = Absent THEN {} ELSE IF kind = "memory" THEN heap[there[k]] ELSE there[k]

(* mutable() takes no lock, yet a change whose section never ran beside another   *)
(* on its key is kept, through deactivations, failures of other sections and, in  *)
(* a shelf, crashes; and there a section that failed leaves nothing behind.       *)
MutableSectionsAreAtomic ==
    \A s \in Sections :
        /\ section[s].at = "done" /\ s \notin overlapped => s \in Kept(Key(s))
        /\ section[s].at = "failed" /\ kind = "shelf" => s \notin Kept(Key(s))
=============================================================================
