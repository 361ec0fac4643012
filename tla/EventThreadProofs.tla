-------------------------- MODULE EventThreadProofs --------------------------
(***************************************************************************)
(* Theorems about EventThread, for any contexts, ids and descriptors: the  *)
(* event thread never uses a context that is gone, and no descriptor is    *)
(* closed while it is selected from.                                       *)
(***************************************************************************)
EXTENDS EventThread, QueueProofs

(* Where the owner of a context that is in the table is, of one whose      *)
(* descriptor may be watched, and of one that has a descriptor to itself.  *)
Registered == {"registered", "modwatched", "idle", "unregister"}
Watched == Registered \cup {"removeevent"}
Live == Watched \cup {"open"}

(* Where the event thread has a context in use.                            *)
Using == {"process", "modwatch", "wake", "release"}

Types ==
    /\ fTable \in [Ids -> Refs \cup {NULL}]
    /\ fRefCount \in [Refs -> Nat]
    /\ fFileDesc \in [Refs -> FDs \cup {NULL}]
    /\ fUniqueID \in [Refs -> Ids \cup {NoCookie}]
    /\ fEventReq \in [Refs -> SUBSET Dirs]
    /\ sCookieArray \in [FDs -> Ids \cup {NoCookie}]
    /\ sSet \subseteq FDs \X Dirs
    /\ sFDsToClose \subseteq openFDs
    /\ openFDs \subseteq FDs
    /\ owner \in [Refs -> Live \cup {"none", "removed"}]
    /\ ref \in Refs \cup {NULL}

(* The table has the contexts between RequestEvent and the end of          *)
(* UnRegister, and only the event thread counts as a user.                 *)
TableExact ==
    /\ at \in Using <=> ref # NULL
    /\ \A c \in Refs : fRefCount[c] = IF c = ref THEN 1 ELSE 0
    /\ \A id \in Ids : fTable[id] # NULL => owner[fTable[id]] \in Registered
    /\ ref # NULL => owner[ref] \in Registered
    /\ at = "resolve" => theCurrentEvent \in Ids

(* Each context that has a descriptor has it to itself.                    *)
OwnDescriptors ==
    /\ \A c \in Refs : owner[c] \in Live => /\ fFileDesc[c] \in openFDs
                                            /\ fFileDesc[c] \notin sFDsToClose
    /\ \A c, d \in Refs : /\ c # d
                          /\ owner[c] \in Live /\ owner[d] \in Live
                          => fFileDesc[c] # fFileDesc[d]
    /\ \A c \in Refs : owner[c] \notin Live /\ owner[c] # "removed" => fFileDesc[c] = NULL

(* What select is or will be asked for.                                    *)
Asking ==
    IF at = "select" THEN sReturned ELSE IF at = "selecting" THEN asked ELSE {}

(* What is watched belongs to a context; what select is asked for may have *)
(* been removed meanwhile, but is open.                                    *)
WatchedOpen ==
    /\ \A b \in sSet : \E c \in Refs : owner[c] \in Watched /\ fFileDesc[c] = b[1]
    /\ \A b \in Asking : /\ b[1] \in openFDs
                         /\ \A c \in Refs : owner[c] = "open" => fFileDesc[c] # b[1]

IInv == Types /\ TableExact /\ OwnDescriptors /\ WatchedOpen

-----------------------------------------------------------------------------
LEMMA ConstantFacts ==
    /\ NULL \notin Refs /\ NULL \notin Ids /\ NULL \notin FDs
    /\ Live' = Live
    /\ NoCookie \notin Ids /\ Listeners \subseteq Refs
    /\ Masks \in [Refs -> SUBSET ((SUBSET Dirs) \ {{}})]
    /\ Registered \subseteq Watched /\ Watched \subseteq Live
    /\ {"none", "removed"} \cap Live = {}
    /\ "open" \in Live \ Watched /\ "removeevent" \in Watched \ Registered
BY RefAssumption, EventAssumption
   DEF RefAssumption, EventAssumption, Registered, Watched, Live, NoCookie

LEMMA InitIInv == Init => IInv
<1> SUFFICES ASSUME Init PROVE IInv
  OBVIOUS
<1> USE ConstantFacts DEF Init, RefInit, SelectInit
<1>1. Types
  BY DEF Types, NoCookie
<1>2. TableExact
  BY DEF TableExact, Using
<1>3. OwnDescriptors
  BY DEF OwnDescriptors
<1>4. WatchedOpen
  BY DEF WatchedOpen, Asking
<1> QED BY <1>1, <1>2, <1>3, <1>4 DEF IInv

-----------------------------------------------------------------------------
(* A step that touches neither the contexts nor the table, and does not    *)
(* add to what is watched.                                                 *)
LEMMA QuietStep ==
    ASSUME IInv,
           UNCHANGED <<fTable, fRefCount, fFileDesc, owner, ref, openFDs, sFDsToClose>>,
           UNCHANGED <<fUniqueID, sCookieArray>>,
           fEventReq' \in [Refs -> SUBSET Dirs],
           sSet' \subseteq sSet, Asking' \subseteq Asking \cup sSet,
           at' \in Using <=> at \in Using,
           at' = "resolve" => theCurrentEvent' \in Ids
    PROVE  IInv'
<1> USE ConstantFacts
<1>1. Types'
  BY DEF IInv, Types
<1>2. TableExact'
  BY DEF IInv, TableExact, Using, Registered
<1>3. OwnDescriptors'
  BY DEF IInv, OwnDescriptors, Live, Watched, Registered
<1>4. WatchedOpen'
  <2>1. \A b \in sSet : \E c \in Refs : owner[c] \in Watched /\ fFileDesc[c] = b[1]
    BY DEF IInv, WatchedOpen
  <2>2. ASSUME NEW b \in Asking' PROVE /\ b[1] \in openFDs
                                      /\ \A c \in Refs : owner[c] = "open" => fFileDesc[c] # b[1]
    <3>1. CASE b \in Asking
      BY <3>1 DEF IInv, WatchedOpen
    <3>2. CASE b \in sSet
      <4>1. PICK d \in Refs : owner[d] \in Watched /\ fFileDesc[d] = b[1]
        BY <2>1, <3>2
      <4> QED BY <4>1 DEF IInv, OwnDescriptors
    <3> QED BY <2>2, <3>1, <3>2
  <2> QED BY <2>1, <2>2 DEF WatchedOpen, Watched, Registered
<1> QED BY <1>1, <1>2, <1>3, <1>4 DEF IInv

(* A step for a context in the table, which may be watched from then on.   *)
LEMMA ContextStep ==
    ASSUME IInv, NEW c \in Refs, NEW s \in Registered,
           owner[c] \in Registered, owner' = [owner EXCEPT ![c] = s],
           UNCHANGED <<fTable, fRefCount, fFileDesc, ref, openFDs, sFDsToClose>>,
           UNCHANGED <<fUniqueID, Asking, theCurrentEvent>>,
           fEventReq' \in [Refs -> SUBSET Dirs],
           sCookieArray' \in [FDs -> Ids \cup {NoCookie}],
           sSet' \subseteq FDs \X Dirs,
           \A b \in sSet' : b \in sSet \/ b[1] = fFileDesc[c],
           at' \in Using <=> at \in Using, at' = "resolve" => at = "resolve"
    PROVE  IInv'
<1> USE ConstantFacts
<1>1. Types'
  BY DEF IInv, Types
<1>2. /\ owner'[c] \in Registered
      /\ \A d \in Refs : d # c => owner'[d] = owner[d]
  BY DEF IInv, Types
<1>3. /\ \A d \in Refs : owner'[d] \in Registered <=> owner[d] \in Registered
      /\ \A d \in Refs : owner'[d] \in Watched <=> owner[d] \in Watched
      /\ \A d \in Refs : owner'[d] \in Live <=> owner[d] \in Live
      /\ \A d \in Refs : owner'[d] \notin Registered => owner'[d] = owner[d]
  BY <1>2
<1>4. TableExact'
  <2>1. \A id \in Ids : fTable[id] # NULL => fTable[id] \in Refs
    BY DEF IInv, Types
  <2>2. ref # NULL => ref \in Refs
    BY DEF IInv, Types
  <2> QED BY <1>3, <2>1, <2>2 DEF IInv, TableExact, Using, Registered
<1>5. OwnDescriptors'
  BY <1>3 DEF IInv, OwnDescriptors, Live, Watched, Registered
<1>6. WatchedOpen'
  <2>1. ASSUME NEW b \in sSet'
        PROVE  \E d \in Refs : owner'[d] \in Watched /\ fFileDesc[d] = b[1]
    BY <1>2, <1>3, <2>1 DEF IInv, WatchedOpen
  <2>2. \A d \in Refs : owner'[d] = "open" => owner[d] = "open"
    BY <1>3
  <2> QED BY <2>1, <2>2 DEF IInv, WatchedOpen, Watched, Registered
<1> QED BY <1>1, <1>4, <1>5, <1>6 DEF IInv

-----------------------------------------------------------------------------
(* The owner.                                                              *)

LEMMA OpenStep ==
    ASSUME IInv, NEW c \in Refs, Open(c)
    PROVE  IInv'
<1> USE ConstantFacts DEF IInv
<1>1. PICK fd \in FDs \ openFDs :
        /\ owner[c] = "none" /\ owner' = [owner EXCEPT ![c] = "open"]
        /\ openFDs' = openFDs \cup {fd}
        /\ fFileDesc' = [fFileDesc EXCEPT ![c] = fd]
        /\ UNCHANGED <<fTable, fRefCount, ref, at, theCurrentEvent, fUniqueID,
                       fEventReq, sCookieArray, sSet, sFDsToClose, Asking>>
  BY DEF Open, Moves, refVars, setVars, threadVars, Asking
<1>2. /\ owner'[c] = "open" /\ fFileDesc'[c] = fd
      /\ \A d \in Refs : d # c => owner'[d] = owner[d] /\ fFileDesc'[d] = fFileDesc[d]
      /\ owner[c] \notin Live
  BY <1>1 DEF Types
<1>3. fd \notin sFDsToClose
  BY <1>1 DEF Types
<1>4. Types'
  BY <1>1 DEF Types
<1>5. TableExact'
  <2>1. \A d \in Refs : owner[d] \in Registered => owner'[d] \in Registered
    BY <1>1, <1>2
  <2>2. \A id \in Ids : fTable[id] # NULL => fTable[id] \in Refs
    BY DEF Types
  <2>3. ref # NULL => ref \in Refs
    BY DEF Types
  <2> QED BY <1>1, <2>1, <2>2, <2>3 DEF TableExact, Using, Registered
<1>6. OwnDescriptors'
  <2>1. ASSUME NEW d \in Refs, d # c, owner[d] \in Live PROVE fFileDesc[d] # fd
    BY <1>1, <2>1 DEF OwnDescriptors
  <2> QED BY <1>1, <1>2, <1>3, <2>1 DEF OwnDescriptors, Live, Watched, Registered
<1>7. WatchedOpen'
  <2>1. \A b \in Asking : b[1] \in openFDs /\ b[1] # fd
    BY <1>1 DEF WatchedOpen
  <2>2. \A d \in Refs : owner[d] \in Watched => d # c
    BY <1>2
  <2>3. \A b \in sSet : \E d \in Refs : owner'[d] \in Watched /\ fFileDesc'[d] = b[1]
    BY <1>2, <2>2 DEF WatchedOpen
  <2>4. \A b \in Asking : \A d \in Refs : owner'[d] = "open" => fFileDesc'[d] # b[1]
    BY <1>2, <2>1 DEF WatchedOpen
  <2> QED BY <1>1, <2>1, <2>3, <2>4 DEF WatchedOpen, Watched, Registered
<1> QED BY <1>4, <1>5, <1>6, <1>7

LEMMA RequestFirstEventStep ==
    ASSUME IInv, NEW c \in Refs, RequestFirstEvent(c)
    PROVE  IInv'
<1> USE ConstantFacts DEF IInv
<1>1. PICK id \in Ids, mask \in SUBSET Dirs :
        /\ owner[c] = "open" /\ owner' = [owner EXCEPT ![c] = "registered"]
        /\ fUniqueID' = [fUniqueID EXCEPT ![c] = id]
        /\ fEventReq' = [fEventReq EXCEPT ![c] = mask]
        /\ fTable' = [fTable EXCEPT ![id] = IF @ = NULL THEN c ELSE @]
        /\ UNCHANGED <<fRefCount, fFileDesc, openFDs, ref, at, theCurrentEvent,
                       sCookieArray, sSet, sFDsToClose, Asking>>
  <2>1. Masks[c] \subseteq SUBSET Dirs /\ UniqueIDs \subseteq Ids
    BY DEF UniqueIDs
  <2> QED BY <2>1 DEF RequestFirstEvent, Moves, Register, eventVars, setVars, kernelVars,
                      threadVars, Asking
<1>2. /\ owner'[c] = "registered" /\ owner'[c] \in Registered
      /\ \A d \in Refs : d # c => owner'[d] = owner[d]
  BY <1>1 DEF Types, Registered
<1>3. /\ \A d \in Refs : owner[d] \in Registered => owner'[d] \in Registered
      /\ \A d \in Refs : owner[d] \in Watched => owner'[d] \in Watched
      /\ \A d \in Refs : owner'[d] \in Live <=> owner[d] \in Live
      /\ \A d \in Refs : owner'[d] = "open" => owner[d] = "open"
      /\ \A d \in Refs : owner'[d] \notin Live => owner'[d] = owner[d]
  BY <1>1, <1>2
<1>4. Types'
  BY <1>1, <1>2 DEF Types
<1>5. TableExact'
  <2>1. \A i \in Ids : fTable'[i] = fTable[i] \/ fTable'[i] = c
    BY <1>1 DEF Types
  <2>2. \A i \in Ids : fTable[i] # NULL => fTable[i] \in Refs
    BY DEF Types
  <2>3. ref # NULL => ref \in Refs
    BY DEF Types
  <2>4. \A i \in Ids : fTable'[i] # NULL => owner'[fTable'[i]] \in Registered
    BY <1>2, <1>3, <2>1, <2>2 DEF TableExact
  <2> QED BY <1>1, <1>3, <2>3, <2>4 DEF TableExact, Using, Registered
<1>6. OwnDescriptors'
  BY <1>1, <1>3 DEF OwnDescriptors, Live, Watched, Registered
<1>7. WatchedOpen'
  BY <1>1, <1>3 DEF WatchedOpen, Watched, Registered
<1> QED BY <1>4, <1>5, <1>6, <1>7

LEMMA ModWatchContextStep ==
    ASSUME IInv, NEW c \in Refs, ModWatchContext(c)
    PROVE  IInv'
<1> USE ConstantFacts
<1>1. /\ owner[c] = "registered" /\ owner' = [owner EXCEPT ![c] = "modwatched"]
      /\ sSet' = (sSet \ Bits(fFileDesc[c])) \cup ({fFileDesc[c]} \X fEventReq[c])
      /\ sCookieArray' = [sCookieArray EXCEPT ![fFileDesc[c]] = fUniqueID[c]]
      /\ UNCHANGED <<fTable, fRefCount, fFileDesc, ref, openFDs, sFDsToClose>>
      /\ UNCHANGED <<fUniqueID, fEventReq, Asking, theCurrentEvent, at>>
  BY DEF ModWatchContext, Moves, ModWatch, refVars, contextVars, kernelVars, threadVars,
         Asking
<1>2. owner[c] \in Registered /\ "modwatched" \in Registered
  BY <1>1 DEF Registered
<1>3. fFileDesc[c] \in FDs
  BY <1>2 DEF IInv, OwnDescriptors, Types
<1>4. /\ sSet' \subseteq FDs \X Dirs
      /\ sCookieArray' \in [FDs -> Ids \cup {NoCookie}]
      /\ fEventReq' \in [Refs -> SUBSET Dirs]
  BY <1>1, <1>3 DEF IInv, Types
<1>5. \A b \in sSet' : b \in sSet \/ b[1] = fFileDesc[c]
  BY <1>1
<1> QED BY <1>1, <1>2, <1>4, <1>5, ContextStep

LEMMA WakeForContextStep ==
    ASSUME IInv, NEW c \in Refs, WakeForContext(c)
    PROVE  IInv'
<1>1. /\ owner[c] = "modwatched" /\ owner' = [owner EXCEPT ![c] = "idle"]
      /\ UNCHANGED <<fTable, fRefCount, fFileDesc, ref, openFDs, sFDsToClose>>
      /\ UNCHANGED <<fUniqueID, Asking, theCurrentEvent, at>>
      /\ UNCHANGED <<fEventReq, sSet, sCookieArray>>
  BY DEF WakeForContext, Moves, refVars, setVars, contextVars, kernelVars, threadVars,
         Asking
<1>2. owner[c] \in Registered /\ "idle" \in Registered
  BY <1>1 DEF Registered
<1> QED BY <1>1, <1>2, ContextStep DEF IInv, Types

LEMMA RequestEventStep ==
    ASSUME IInv, NEW c \in Refs, RequestEvent(c)
    PROVE  IInv'
<1>1. PICK mask \in SUBSET Dirs :
      /\ owner[c] = "idle" /\ owner' = [owner EXCEPT ![c] = "registered"]
      /\ UNCHANGED <<fTable, fRefCount, fFileDesc, ref, openFDs, sFDsToClose>>
      /\ UNCHANGED <<fUniqueID, Asking, theCurrentEvent, at>>
      /\ UNCHANGED <<sSet, sCookieArray>>
      /\ fEventReq' = [fEventReq EXCEPT ![c] = mask]
  <2>1. Masks[c] \subseteq SUBSET Dirs
    BY ConstantFacts
  <2> QED BY <2>1 DEF RequestEvent, Moves, refVars, setVars, threadVars, Asking
<1>2. owner[c] \in Registered /\ "registered" \in Registered
  BY <1>1 DEF Registered
<1>3. fEventReq' \in [Refs -> SUBSET Dirs]
  BY <1>1 DEF IInv, Types
<1> QED BY <1>1, <1>2, <1>3, ContextStep DEF IInv, Types

LEMMA AcceptInTaskStep ==
    ASSUME IInv, NEW c \in Refs, AcceptInTask(c)
    PROVE  IInv'
<1>1. /\ UNCHANGED <<fTable, fRefCount, fFileDesc, owner, ref, openFDs, sFDsToClose>>
      /\ UNCHANGED <<fUniqueID, sCookieArray, fEventReq, sSet, at, theCurrentEvent>>
      /\ UNCHANGED Asking
  BY DEF AcceptInTask, refVars, setVars, contextVars, threadVars, Asking
<1>2. at = "resolve" => theCurrentEvent \in Ids
  BY DEF IInv, TableExact
<1> QED BY <1>1, <1>2, QuietStep DEF IInv, Types

LEMMA CleanupStep ==
    ASSUME IInv, NEW c \in Refs, Cleanup(c)
    PROVE  IInv'
<1>1. /\ owner[c] = "idle" /\ owner' = [owner EXCEPT ![c] = "unregister"]
      /\ UNCHANGED <<fTable, fRefCount, fFileDesc, ref, openFDs, sFDsToClose>>
      /\ UNCHANGED <<fUniqueID, Asking, theCurrentEvent, at>>
      /\ UNCHANGED <<fEventReq, sSet, sCookieArray>>
  BY DEF Cleanup, Moves, refVars, eventVars, setVars, contextVars, kernelVars, threadVars,
         Asking
<1>2. owner[c] \in Registered /\ "unregister" \in Registered
  BY <1>1 DEF Registered
<1> QED BY <1>1, <1>2, ContextStep DEF IInv, Types

(* A context gives up its descriptor: at once, or after what is watched    *)
(* and waits to be closed no longer needs it.                              *)
LEMMA ForgetStep ==
    ASSUME IInv, NEW c \in Refs, owner[c] \notin Watched,
           owner' = [owner EXCEPT ![c] = "none"], Forget(c),
           UNCHANGED <<fTable, fRefCount, ref, at, theCurrentEvent>>,
           UNCHANGED <<sCookieArray, sSet, sFDsToClose, Asking>>,
           openFDs' = openFDs \/ (owner[c] = "open" /\ openFDs' = openFDs \ {fFileDesc[c]})
    PROVE  IInv'
<1> USE ConstantFacts DEF IInv
<1>1. /\ owner'[c] = "none" /\ fFileDesc'[c] = NULL
      /\ \A d \in Refs : d # c => owner'[d] = owner[d] /\ fFileDesc'[d] = fFileDesc[d]
  BY DEF Types, Forget
<1>2. /\ \A d \in Refs : owner[d] \in Watched => d # c
      /\ \A d \in Refs : owner[d] \in Registered => d # c
      /\ "none" \notin Registered /\ "none" \notin Watched
  OBVIOUS
<1>3. fFileDesc[c] \notin sFDsToClose \/ openFDs' = openFDs
  BY DEF OwnDescriptors
<1>4. Types'
  <2>1. /\ fFileDesc' \in [Refs -> FDs \cup {NULL}]
        /\ fUniqueID' \in [Refs -> Ids \cup {NoCookie}]
        /\ fEventReq' \in [Refs -> SUBSET Dirs]
    BY DEF Types, Forget, NoCookie
  <2> QED BY <1>3, <2>1 DEF Types
<1>5. TableExact'
  <2>1. \A id \in Ids : fTable[id] # NULL => fTable[id] \in Refs
    BY DEF Types
  <2>2. ref # NULL => ref \in Refs
    BY DEF Types
  <2> QED BY <1>1, <1>2, <2>1, <2>2 DEF TableExact, Using, Registered
<1>6. OwnDescriptors'
  <2>1. ASSUME NEW d \in Refs, owner'[d] \in Live
        PROVE  /\ d # c /\ owner[d] \in Live /\ fFileDesc'[d] = fFileDesc[d]
               /\ fFileDesc[d] \in openFDs' /\ fFileDesc[d] \notin sFDsToClose
    BY <1>1, <2>1 DEF OwnDescriptors
  <2>2. ASSUME NEW d \in Refs, owner'[d] \notin Live, owner'[d] # "removed"
        PROVE  fFileDesc'[d] = NULL
    BY <1>1, <2>2 DEF OwnDescriptors
  <2> QED BY <2>1, <2>2 DEF OwnDescriptors, Live, Watched, Registered
<1>7. WatchedOpen'
  <2>1. \A b \in sSet : \E d \in Refs : owner'[d] \in Watched /\ fFileDesc'[d] = b[1]
    BY <1>1, <1>2 DEF WatchedOpen
  <2>2. ASSUME NEW b \in Asking
        PROVE  /\ b[1] \in openFDs'
               /\ \A d \in Refs : owner'[d] = "open" => fFileDesc'[d] # b[1]
    BY <1>1 DEF WatchedOpen
  <2> QED BY <2>1, <2>2 DEF WatchedOpen, Watched, Registered
<1> QED BY <1>4, <1>5, <1>6, <1>7

LEMMA CleanupUnusedStep ==
    ASSUME IInv, NEW c \in Refs, CleanupUnused(c)
    PROVE  IInv'
<1>1. /\ owner[c] = "open" /\ owner' = [owner EXCEPT ![c] = "none"] /\ Forget(c)
      /\ UNCHANGED <<fTable, fRefCount, ref, at, theCurrentEvent>>
      /\ UNCHANGED <<sCookieArray, sSet, sFDsToClose, Asking>>
      /\ openFDs' = openFDs \ {fFileDesc[c]}
  BY DEF CleanupUnused, Moves, refVars, setVars, threadVars, Asking
<1> QED BY <1>1, ForgetStep, ConstantFacts

LEMMA WakeForRemovalStep ==
    ASSUME IInv, NEW c \in Refs, WakeForRemoval(c)
    PROVE  IInv'
<1>1. /\ owner[c] = "removed" /\ owner' = [owner EXCEPT ![c] = "none"] /\ Forget(c)
      /\ UNCHANGED <<fTable, fRefCount, ref, at, theCurrentEvent>>
      /\ UNCHANGED <<sCookieArray, sSet, sFDsToClose, Asking>>
      /\ openFDs' = openFDs
  BY DEF WakeForRemoval, Moves, refVars, setVars, kernelVars, threadVars, Asking
<1> QED BY <1>1, ForgetStep, ConstantFacts

(* UnRegister takes a context out of the table only when the event thread  *)
(* does not use it.                                                        *)
LEMMA UnRegisterContextStep ==
    ASSUME IInv, NEW c \in Refs, UnRegisterContext(c)
    PROVE  IInv'
<1> USE ConstantFacts
<1>1. /\ owner[c] = "unregister" /\ owner[c] \in Registered
      /\ UNCHANGED <<fRefCount, fFileDesc, ref, openFDs, sFDsToClose>>
      /\ UNCHANGED <<fUniqueID, Asking, theCurrentEvent, at>>
      /\ UNCHANGED <<fEventReq, sSet, sCookieArray>>
  BY DEF UnRegisterContext, UnRegister, eventVars, setVars, contextVars, kernelVars,
         threadVars, Asking, Registered
<1>2. CASE ~Unused(c)
  <2>1. owner' = [owner EXCEPT ![c] = owner[c]] /\ UNCHANGED fTable
    BY <1>2 DEF UnRegisterContext, UnRegister
  <2> QED BY <1>1, <2>1, ContextStep DEF IInv, Types
<1>3. CASE Unused(c)
  <2> USE DEF IInv
  <2>1. /\ owner' = [owner EXCEPT ![c] = "removeevent"]
        /\ fTable' = [id \in Ids |-> IF fTable[id] = c THEN NULL ELSE fTable[id]]
    BY <1>3 DEF UnRegisterContext, UnRegister
  <2>2. c # ref
    BY <1>3 DEF Unused, TableExact
  <2>3. /\ owner'[c] = "removeevent"
        /\ \A d \in Refs : d # c => owner'[d] = owner[d]
    BY <2>1 DEF Types
  <2>4. Types'
    BY <1>1, <2>1 DEF Types
  <2>5. TableExact'
    <3>1. \A id \in Ids : fTable'[id] # NULL =>
             fTable'[id] \in Refs /\ fTable'[id] # c /\ fTable'[id] = fTable[id]
      BY <2>1 DEF Types
    <3>2. ref # NULL => ref \in Refs
      BY DEF Types
    <3> QED BY <1>1, <2>2, <2>3, <3>1, <3>2 DEF TableExact, Using, Registered
  <2>6. /\ \A d \in Refs : owner'[d] \in Live <=> owner[d] \in Live
        /\ \A d \in Refs : owner[d] \in Watched => owner'[d] \in Watched
        /\ \A d \in Refs : owner'[d] \notin Live \/ owner'[d] = "open" => owner'[d] = owner[d]
    BY <1>1, <2>3
  <2>7. OwnDescriptors'
    BY <1>1, <2>6 DEF OwnDescriptors, Live, Watched, Registered
  <2>8. WatchedOpen'
    BY <1>1, <2>6 DEF WatchedOpen, Watched, Registered
  <2> QED BY <2>4, <2>5, <2>7, <2>8
<1> QED BY <1>2, <1>3

(* The removed descriptor stays open, but is watched no longer.            *)
LEMMA RemoveContextEventStep ==
    ASSUME IInv, NEW c \in Refs, RemoveContextEvent(c)
    PROVE  IInv'
<1> USE ConstantFacts DEF IInv
<1>1. /\ owner[c] = "removeevent" /\ owner' = [owner EXCEPT ![c] = "removed"]
      /\ sSet' = sSet \ Bits(fFileDesc[c])
      /\ sReturned' = sReturned \ Bits(fFileDesc[c])
      /\ sCookieArray' = [sCookieArray EXCEPT ![fFileDesc[c]] = NoCookie]
      /\ sFDsToClose' = sFDsToClose \cup {fFileDesc[c]}
      /\ UNCHANGED <<fTable, fRefCount, fFileDesc, ref, at, theCurrentEvent>>
      /\ UNCHANGED <<fUniqueID, fEventReq, asked, openFDs>>
  BY DEF RemoveContextEvent, Moves, RemoveEvent, refVars, contextVars, kernelVars,
         threadVars
<1>2. /\ owner'[c] = "removed"
      /\ \A d \in Refs : d # c => owner'[d] = owner[d]
      /\ owner[c] \in Live
  BY <1>1 DEF Types
<1>3. fFileDesc[c] \in openFDs
  BY <1>2 DEF OwnDescriptors
<1>4. Types'
  BY <1>1, <1>3 DEF Types
<1>5. TableExact'
  <2>1. \A id \in Ids : fTable[id] # NULL => fTable[id] \in Refs
    BY DEF Types
  <2>2. ref # NULL => ref \in Refs
    BY DEF Types
  <2>3. owner[c] \notin Registered
    BY <1>1
  <2> QED BY <1>1, <1>2, <2>1, <2>2, <2>3 DEF TableExact, Using, Registered
<1>6. OwnDescriptors'
  <2>1. ASSUME NEW d \in Refs, owner'[d] \in Live
        PROVE  /\ owner[d] \in Live /\ fFileDesc[d] # fFileDesc[c]
    BY <1>2, <2>1 DEF OwnDescriptors
  <2>2. \A d \in Refs : owner'[d] \notin Live /\ owner'[d] # "removed"
           => owner[d] = owner'[d]
    BY <1>2
  <2> QED BY <1>1, <2>1, <2>2 DEF OwnDescriptors, Live, Watched, Registered
<1>7. WatchedOpen'
  <2>1. ASSUME NEW b \in sSet'
        PROVE  \E d \in Refs : owner'[d] \in Watched /\ fFileDesc[d] = b[1]
    <3>1. b \in sSet /\ b[1] # fFileDesc[c]
      BY <1>1, <2>1 DEF Bits, Types
    <3> QED BY <1>2, <3>1 DEF WatchedOpen
  <2>2. Asking' \subseteq Asking
    BY <1>1 DEF Asking
  <2>3. \A d \in Refs : owner'[d] = "open" => owner[d] = "open"
    BY <1>2
  <2> QED BY <1>1, <2>1, <2>2, <2>3 DEF WatchedOpen, Watched, Registered
<1> QED BY <1>4, <1>5, <1>6, <1>7

-----------------------------------------------------------------------------
(* The event thread.                                                       *)

LEMMA WaitEventStep ==
    ASSUME IInv, NEW dir \in Dirs, WaitEvent(dir)
    PROVE  IInv'
<1>1. /\ UNCHANGED <<fTable, fRefCount, fFileDesc, owner, ref, openFDs, sFDsToClose>>
      /\ UNCHANGED <<fUniqueID, sCookieArray, fEventReq>>
      /\ sSet' \subseteq sSet
      /\ at = "waitevent" /\ at' \in {"waitevent", "resolve"}
  BY DEF WaitEvent, ConstructEvent, Disarm, StartWriteSet, ScanDone, Goes, ThreadOnly,
         refVars, setVars, contextVars, kernelVars
<1>2. at' = "resolve" => theCurrentEvent' \in Ids
  <2>1. at' = "resolve" => \E fd \in FDs : /\ theCurrentEvent' = sCookieArray[fd]
                                           /\ sCookieArray[fd] # NoCookie
    BY DEF WaitEvent, Found, Goes
  <2> QED BY <2>1 DEF IInv, Types
<1>3. Asking' = {} /\ at' \notin Using /\ at \notin Using
  BY <1>1 DEF Asking, Using
<1> QED BY <1>1, <1>2, <1>3, QuietStep DEF IInv, Types

LEMMA SelectStep ==
    ASSUME IInv, PrepareSelect \/ EnterSelect \/ LeaveSelect \/ RepeatSelect \/ DrainData
    PROVE  IInv'
<1>1. /\ UNCHANGED <<fTable, fRefCount, fFileDesc, owner, ref, openFDs, sFDsToClose>>
      /\ UNCHANGED <<fUniqueID, sCookieArray, fEventReq, sSet>>
  BY DEF PrepareSelect, EnterSelect, LeaveSelect, RepeatSelect, DrainData, CopySets,
         CallSelect, SelectReturns, SelectAgain, DrainPipe, Goes, ThreadOnly,
         refVars, setVars, contextVars, kernelVars
<1>2. /\ at \in {"waitevent", "select", "selecting", "drain"}
      /\ at' \in {"waitevent", "select", "selecting", "drain", "close"}
  BY DEF PrepareSelect, EnterSelect, LeaveSelect, RepeatSelect, DrainData, Goes
<1>3. Asking' \subseteq Asking \cup sSet
  BY DEF PrepareSelect, EnterSelect, LeaveSelect, RepeatSelect, DrainData, CopySets,
         CallSelect, Goes, Asking
<1>4. at' \notin Using /\ at \notin Using /\ at' # "resolve"
  BY <1>2 DEF Using
<1> QED BY <1>1, <1>3, <1>4, QuietStep DEF IInv, Types

(* What is closed has no owner any more that uses it, and is not asked for.*)
LEMMA CloseRemovedStep ==
    ASSUME IInv, CloseRemoved
    PROVE  IInv'
<1> USE ConstantFacts DEF IInv
<1>1. /\ UNCHANGED <<fTable, fRefCount, fFileDesc, owner, ref, theCurrentEvent>>
      /\ UNCHANGED <<fUniqueID, sCookieArray, fEventReq, sSet>>
      /\ openFDs' = openFDs \ sFDsToClose /\ sFDsToClose' = {}
      /\ at = "close" /\ at' = "waitevent"
  BY DEF CloseRemoved, CloseFDs, Goes, ThreadOnly, refVars, setVars, contextVars
<1>2. Types'
  BY <1>1 DEF Types
<1>3. TableExact'
  BY <1>1 DEF TableExact, Using, Registered
<1>4. OwnDescriptors'
  BY <1>1 DEF OwnDescriptors, Live, Watched, Registered
<1>5. WatchedOpen'
  BY <1>1 DEF WatchedOpen, Asking, Watched, Registered
<1> QED BY <1>2, <1>3, <1>4, <1>5

LEMMA ResolveEventStep ==
    ASSUME IInv, ResolveEvent
    PROVE  IInv'
<1> USE ConstantFacts DEF IInv
<1> DEFINE found == fTable[theCurrentEvent]
<1>1. /\ at = "resolve"
      /\ UNCHANGED <<fTable, fFileDesc, owner, openFDs, sFDsToClose>>
      /\ UNCHANGED <<fUniqueID, sCookieArray, fEventReq, sSet>>
      /\ fRefCount' = IF found = NULL THEN fRefCount
                      ELSE [fRefCount EXCEPT ![found] = @ + 1]
      /\ ref' = found
      /\ at' = IF found = NULL THEN "waitevent" ELSE "process"
  BY DEF ResolveEvent, Resolve, eventVars, setVars, contextVars, kernelVars
<1>2. /\ theCurrentEvent \in Ids /\ found \in Refs \cup {NULL}
      /\ ref = NULL
  BY <1>1 DEF TableExact, Using, Types
<1>3. Types'
  BY <1>1, <1>2 DEF Types
<1>4. TableExact'
  <2>1. at' \in Using <=> ref' # NULL
    BY <1>1 DEF Using
  <2>2. \A c \in Refs : fRefCount[c] = 0
    BY <1>2 DEF TableExact
  <2>3. \A c \in Refs : fRefCount'[c] = IF c = ref' THEN 1 ELSE 0
    BY <1>1, <1>2, <2>2 DEF Types
  <2>4. ref' # NULL => owner[ref'] \in Registered
    BY <1>1, <1>2 DEF TableExact
  <2>5. at' # "resolve"
    BY <1>1
  <2>6. \A id \in Ids : fTable[id] # NULL => owner[fTable[id]] \in Registered
    BY DEF TableExact
  <2> QED BY <1>1, <2>1, <2>3, <2>4, <2>5, <2>6 DEF TableExact, Using, Registered
<1>5. OwnDescriptors'
  BY <1>1 DEF OwnDescriptors, Live, Watched, Registered
<1>6. WatchedOpen'
  BY <1>1 DEF WatchedOpen, Asking, Watched, Registered
<1> QED BY <1>3, <1>4, <1>5, <1>6

LEMMA ProcessStep ==
    ASSUME IInv, ProcessEvent \/ Accept \/ AcceptAndSleep \/ AcceptFails \/ ListenerWake
    PROVE  IInv'
<1>1. /\ UNCHANGED <<fTable, fRefCount, fFileDesc, owner, ref, openFDs, sFDsToClose>>
      /\ UNCHANGED <<fUniqueID, sCookieArray, fEventReq, sSet>>
  BY DEF ProcessEvent, Accept, AcceptAndSleep, AcceptFails, AcceptCall, ListenerWake,
         Goes, ThreadOnly, eventVars, refVars, setVars, contextVars, kernelVars
<1>2. at \in {"process", "wake"} /\ at' \in {"release", "modwatch"}
  BY DEF ProcessEvent, Accept, AcceptAndSleep, AcceptFails, ListenerWake, Goes
<1>3. Asking' = {} /\ at' \in Using /\ at \in Using /\ at' # "resolve"
  BY <1>2 DEF Asking, Using
<1> QED BY <1>1, <1>3, QuietStep DEF IInv, Types

(* The context that asks again from within ProcessEvent is still there.    *)
LEMMA ListenerModWatchStep ==
    ASSUME IInv, ListenerModWatch
    PROVE  IInv'
<1>1. /\ at = "modwatch" /\ at' = "wake"
      /\ sSet' = (sSet \ Bits(fFileDesc[ref])) \cup ({fFileDesc[ref]} \X fEventReq[ref])
      /\ sCookieArray' = [sCookieArray EXCEPT ![fFileDesc[ref]] = fUniqueID[ref]]
      /\ UNCHANGED <<fTable, fRefCount, fFileDesc, owner, ref, openFDs, sFDsToClose>>
      /\ UNCHANGED <<fUniqueID, fEventReq, theCurrentEvent>>
  BY DEF ListenerModWatch, ModWatch, Goes, ThreadOnly, refVars, contextVars, kernelVars
<1>2. ref \in Refs /\ owner[ref] \in Registered
  BY <1>1 DEF IInv, Types, TableExact, Using
<1>3. fFileDesc[ref] \in FDs
  BY <1>2, ConstantFacts DEF IInv, OwnDescriptors, Types
<1>4. /\ sSet' \subseteq FDs \X Dirs
      /\ sCookieArray' \in [FDs -> Ids \cup {NoCookie}]
      /\ fEventReq' \in [Refs -> SUBSET Dirs]
  BY <1>1, <1>2, <1>3 DEF IInv, Types
<1>5. \A b \in sSet' : b \in sSet \/ b[1] = fFileDesc[ref]
  BY <1>1
<1>6. owner' = [owner EXCEPT ![ref] = owner[ref]]
  BY <1>1, <1>2 DEF IInv, Types
<1>7. Asking' = Asking /\ at' \in Using /\ at \in Using /\ at' # "resolve"
  BY <1>1 DEF Asking, Using
<1> QED BY <1>1, <1>2, <1>4, <1>5, <1>6, <1>7, ContextStep

LEMMA ReleaseRefStep ==
    ASSUME IInv, ReleaseRef
    PROVE  IInv'
<1> USE ConstantFacts DEF IInv
<1>1. /\ at = "release" /\ at' = "waitevent" /\ ref' = NULL
      /\ UNCHANGED <<fTable, fFileDesc, owner, openFDs, sFDsToClose>>
      /\ UNCHANGED <<fUniqueID, sCookieArray, fEventReq, sSet>>
      /\ fRefCount' = [fRefCount EXCEPT ![ref] = @ - 1]
  BY DEF ReleaseRef, Release, eventVars, setVars, contextVars, kernelVars
<1>2. ref \in Refs
  BY <1>1 DEF Types, TableExact, Using
<1>3. \A c \in Refs : fRefCount'[c] = 0
  BY <1>1, <1>2 DEF Types, TableExact
<1>4. fRefCount' \in [Refs -> Nat]
  <2>1. fRefCount[ref] - 1 \in Nat
    BY <1>2 DEF TableExact
  <2> QED BY <1>1, <2>1 DEF Types
<1>5. Types'
  BY <1>1, <1>4 DEF Types
<1>6. TableExact'
  BY <1>1, <1>3 DEF TableExact, Using, Registered
<1>7. OwnDescriptors'
  BY <1>1 DEF OwnDescriptors, Live, Watched, Registered
<1>8. WatchedOpen'
  BY <1>1 DEF WatchedOpen, Asking, Watched, Registered
<1> QED BY <1>5, <1>6, <1>7, <1>8

LEMMA StutterStep ==
    ASSUME IInv, BecomeReady \/ UNCHANGED vars
    PROVE  IInv'
<1>1. /\ UNCHANGED <<fTable, fRefCount, fFileDesc, owner, ref, openFDs, sFDsToClose>>
      /\ UNCHANGED <<fUniqueID, sCookieArray, fEventReq, sSet, at, theCurrentEvent>>
      /\ UNCHANGED Asking
  BY DEF BecomeReady, vars, refVars, eventVars, setVars, contextVars, kernelVars,
         threadVars, Asking
<1>2. at = "resolve" => theCurrentEvent \in Ids
  BY DEF IInv, TableExact
<1> QED BY <1>1, <1>2, QuietStep DEF IInv, Types

-----------------------------------------------------------------------------
LEMMA InductiveStep == IInv /\ [Next]_vars => IInv'
<1> SUFFICES ASSUME IInv, [Next]_vars PROVE IInv'
  OBVIOUS
<1>1. ASSUME NEW c \in Refs, OwnerStep(c) PROVE IInv'
  BY <1>1, OpenStep, RequestFirstEventStep, ModWatchContextStep, WakeForContextStep,
     RequestEventStep, AcceptInTaskStep, CleanupStep, CleanupUnusedStep, UnRegisterContextStep,
     RemoveContextEventStep, WakeForRemovalStep
     DEF OwnerStep, OwnerGoesOn
<1>2. CASE ThreadStep \/ RepeatSelect
  BY <1>2, WaitEventStep, SelectStep, CloseRemovedStep, ResolveEventStep, ProcessStep,
     ListenerModWatchStep, ReleaseRefStep DEF ThreadStep
<1>3. CASE BecomeReady \/ UNCHANGED vars
  BY <1>3, StutterStep
<1> QED BY <1>1, <1>2, <1>3 DEF Next

(* The table, its users, the descriptors and what is watched fit together  *)
(* at every step of the owners and of the event thread.                    *)
THEOREM InductiveInvariant == Spec => []IInv
BY InitIInv, InductiveStep, PTL DEF Spec

(* The event thread uses a context only while it is in the table, and      *)
(* counts as its one user: UnRegister does not return meanwhile            *)
(* (EventContext.cpp:52-92, 210-229; OSRef.cpp:72-133).                    *)
THEOREM ContextsStay == Spec => []NoStaleContext
<1>1. IInv => NoStaleContext
  BY DEF IInv, Types, TableExact, NoStaleContext, Registered
<1> QED BY InductiveInvariant, <1>1, PTL

(* A descriptor is closed after it is removed from the sets, after its     *)
(* context forgot it or is about to, and never while the select that was   *)
(* asked for it lasts (ev.cpp:74-125, 351-420).                            *)
THEOREM DescriptorsClosedLast == Spec => []ClosedLast
<1>1. IInv => ClosedLast
  <2> SUFFICES ASSUME IInv PROVE ClosedLast
    OBVIOUS
  <2> USE ConstantFacts DEF IInv
  <2>1. at = "selecting" => AskedOpen
    BY DEF WatchedOpen, Asking, AskedOpen
  <2>2. sFDsToClose \subseteq openFDs
    BY DEF Types
  <2>3. ASSUME NEW fd \in sFDsToClose, NEW c \in Refs, fFileDesc[c] = fd
        PROVE  owner[c] = "removed"
    BY <2>3 DEF Types, OwnDescriptors
  <2>4. ASSUME NEW fd \in sFDsToClose PROVE sSet \cap Bits(fd) = {}
    <3>1. \A b \in sSet : b[1] # fd
      BY <2>3, <2>4 DEF WatchedOpen, OwnDescriptors
    <3> QED BY <3>1 DEF Bits
  <2> QED BY <2>1, <2>2, <2>3, <2>4 DEF ClosedLast
<1> QED BY InductiveInvariant, <1>1, PTL
-----------------------------------------------------------------------------
(* What a context asked for is watched.                                    *)

(* The rest of the state.                                                  *)
MoreTypes ==
    /\ fCond \in [Refs -> {"none", "wait", "woken"}]
    /\ told \in [Refs -> BOOLEAN] /\ failed \subseteq Listeners
    /\ sReturned \subseteq FDs \X Dirs /\ asked \subseteq FDs \X Dirs
    /\ ready \subseteq FDs \X Dirs
    /\ sMaxFDPos \in FDs \cup {PipeFD}
    /\ sPipe \in BOOLEAN /\ sInReadSet \in BOOLEAN
    /\ sCurrentFDPos \in Nat /\ sNumFDsBack \in Nat /\ sNumFDsProcessed \in Nat
    /\ theCurrentEvent \in Ids \cup {NoCookie}
    /\ at \in {"waitevent", "select", "selecting", "drain", "close",
               "resolve", "process", "modwatch", "wake", "release"}
    /\ at = "drain" => sNumFDsBack # 0

(* The table finds each context in it under the id of the context.         *)
IdsExact ==
    /\ \A id \in Ids : fTable[id] # NULL => fUniqueID[fTable[id]] = id
    /\ \A c \in Refs : owner[c] \in Registered => /\ fUniqueID[c] \in Ids
                                                  /\ fTable[fUniqueID[c]] = c
                                                  /\ fEventReq[c] # {}

(* No descriptor that is watched is above the highest.                     *)
SetBounded == \A b \in sSet : b[1] <= sMaxFDPos

Wants(c) == {fFileDesc[c]} \X fEventReq[c]

Watching(c) ==
    /\ Wants(c) \subseteq sSet
    /\ sCookieArray[fFileDesc[c]] = fUniqueID[c]

(* The task of c is told, or was given up with an accept.                  *)
Answered(c) == told[c] \/ c \in failed

(* What RequestEvent did lasts until the context or its task hears of the  *)
(* event, from the change of the sets on and not only once it returns.     *)
Heard ==
    \A c \in Refs : owner[c] \in {"modwatched", "idle"}
                    => Watching(c) \/ InFlight(c) \/ Answered(c)

(* The select that is prepared or in progress knows of it, or is woken.    *)
Woken ==
    \A c \in Refs : /\ owner[c] = "idle" /\ Watching(c)
                    /\ at \in {"select", "selecting"}
                    => Wants(c) \subseteq Asking \/ sPipe

HInv == IInv /\ MoreTypes /\ IdsExact /\ SetBounded /\ Heard /\ Woken

LEMMA EventFacts ==
    /\ FDs \subseteq Nat /\ PipeFD \in Nat /\ PipeFD \notin FDs
    /\ IsFiniteSet(FDs) /\ Ids \subseteq Nat
BY FDAssumption, EventAssumption DEF FDAssumption, EventAssumption, PipeFD

LEMMA HighestType ==
    ASSUME SetBounded, MoreTypes, sSet \subseteq FDs \X Dirs, NEW fd \in FDs
    PROVE  /\ Lowered(fd) \in FDs \cup {PipeFD}
           /\ \A b \in sSet \ Bits(fd) : b[1] <= Lowered(fd)
<1>1. CASE fd # sMaxFDPos
  BY <1>1 DEF Lowered, MoreTypes, SetBounded
<1>2. CASE fd = sMaxFDPos
  <2> DEFINE watched == {PipeFD} \cup {b[1] : b \in sSet \ Bits(fd)}
  <2>1. watched \subseteq FDs \cup {PipeFD} /\ watched # {}
    OBVIOUS
  <2> HIDE DEF watched
  <2>2. IsFiniteSet(FDs \cup {PipeFD})
    BY EventFacts, FS_AddElement
  <2>3. IsFiniteSet(watched) /\ watched \subseteq Nat
    BY <2>1, <2>2, EventFacts, FS_Subset
  <2>4. \E m \in watched : \A f \in watched : f <= m
    BY <2>1, <2>3, NatMax
  <2> DEFINE m == CHOOSE m \in watched : \A f \in watched : f <= m
  <2>5. m \in watched /\ \A f \in watched : f <= m
    BY <2>4
  <2>6. Lowered(fd) = m
    BY <1>2 DEF Lowered, watched
  <2> HIDE DEF m
  <2>7. \A b \in sSet \ Bits(fd) : b[1] \in watched
    BY DEF watched
  <2> QED BY <2>1, <2>5, <2>6, <2>7
<1> QED BY <1>1, <1>2

(* The number of descriptors that come back.                               *)
LEMMA BackType == MoreTypes => Cardinality(asked \cap ready) \in Nat
<1> SUFFICES ASSUME MoreTypes PROVE Cardinality(asked \cap ready) \in Nat
  OBVIOUS
<1>1. IsFiniteSet(Dirs)
  <2>1. Dirs = {"read"} \cup {"write"}
    BY DEF Dirs
  <2> QED BY <2>1, FS_Singleton, FS_Union
<1>2. IsFiniteSet(FDs \X Dirs)
  BY <1>1, EventFacts, FS_Product
<1>3. asked \cap ready \subseteq FDs \X Dirs
  BY DEF MoreTypes
<1> QED BY <1>2, <1>3, FS_Subset, FS_CardinalityType

LEMMA InitHInv == Init => HInv
<1> SUFFICES ASSUME Init PROVE HInv
  OBVIOUS
<1>1. IInv
  BY InitIInv
<1>2. MoreTypes
  BY EventFacts DEF Init, RefInit, SelectInit, MoreTypes
<1>3. IdsExact /\ SetBounded /\ Heard /\ Woken
  BY DEF Init, RefInit, SelectInit, IdsExact, SetBounded, Heard, Woken, Registered
<1> QED BY <1>1, <1>2, <1>3 DEF HInv

-----------------------------------------------------------------------------
(* The types are kept.                                                     *)

LEMMA OwnerTypes ==
    ASSUME IInv, MoreTypes, SetBounded, NEW c \in Refs, OwnerStep(c)
    PROVE  MoreTypes'
<1> USE EventFacts
<1>1. CASE Open(c) \/ RequestFirstEvent(c) \/ Cleanup(c)
  BY <1>1 DEF Open, RequestFirstEvent, Cleanup, Register, MoreTypes, toldVars, refVars, eventVars,
              setVars, scanVars, kernelVars, threadVars
<1>2. CASE RequestEvent(c) \/ AcceptInTask(c)
  BY <1>2 DEF RequestEvent, AcceptInTask, MayTake, MoreTypes, toldVars, refVars, setVars,
              scanVars, threadVars
<1>3. CASE CleanupUnused(c)
  BY <1>3 DEF CleanupUnused, Forget, MoreTypes, toldVars, refVars, setVars, scanVars, threadVars
<1>4. CASE ModWatchContext(c)
  <2>1. fFileDesc[c] \in FDs
    BY <1>4, ConstantFacts
       DEF ModWatchContext, Moves, IInv, Types, OwnDescriptors, Live, Watched, Registered
  <2>2. sMaxFDPos' \in FDs \cup {PipeFD}
    BY <1>4, <2>1 DEF ModWatchContext, ModWatch, MoreTypes
  <2> QED BY <1>4, <2>2
          DEF ModWatchContext, MoreTypes, toldVars, refVars, scanVars, kernelVars, threadVars
<1>5. CASE WakeForContext(c) \/ WakeForRemoval(c)
  BY <1>5 DEF WakeForContext, WakeForRemoval, WakeSelect, Forget, MoreTypes, toldVars, refVars,
              setVars, scanVars, kernelVars, threadVars
<1>6. CASE UnRegisterContext(c)
  BY <1>6 DEF UnRegisterContext, UnRegister, MoreTypes, toldVars, eventVars, setVars, scanVars,
              kernelVars, threadVars
<1>7. CASE RemoveContextEvent(c)
  <2>1. fFileDesc[c] \in FDs
    BY <1>7, ConstantFacts
       DEF RemoveContextEvent, Moves, IInv, Types, OwnDescriptors, Live, Watched
  <2>2. sMaxFDPos' \in FDs \cup {PipeFD}
    BY <1>7, <2>1, HighestType DEF RemoveContextEvent, RemoveEvent, IInv, Types
  <2> QED BY <1>7, <2>2 DEF RemoveContextEvent, RemoveEvent, MoreTypes, toldVars, refVars, scanVars,
                            kernelVars, threadVars
<1> QED BY <1>1, <1>2, <1>3, <1>4, <1>5, <1>6, <1>7 DEF OwnerStep, OwnerGoesOn

(* An event for fd, or none: the other pass begins, or the scan is over.   *)
EventOf(fd, dir) ==
    /\ ConstructEvent(fd, dir)
    /\ theCurrentEvent' = sCookieArray[fd]
    /\ at' = IF sCookieArray[fd] = NoCookie THEN "waitevent" ELSE "resolve"

NoEvent ==
    /\ UNCHANGED <<sSet, sReturned, theCurrentEvent>> /\ at' = "waitevent"
    /\ sInReadSet' \in BOOLEAN /\ sCurrentFDPos' = 0
    /\ sNumFDsBack' \in {sNumFDsBack, 0} /\ sNumFDsProcessed' \in {sNumFDsProcessed, 0}

LEMMA ScanOrEvent ==
    ASSUME NEW dir \in Dirs, WaitEvent(dir)
    PROVE  /\ at = "waitevent" /\ ThreadOnly
           /\ UNCHANGED <<ref, sCookieArray, sMaxFDPos, sPipe, asked, openFDs, ready>>
           /\ NoEvent \/ \E fd \in FDs : EventOf(fd, dir)
<1>1. at = "waitevent" /\ ThreadOnly
  BY DEF WaitEvent
<1>2. CASE Found(dir) = {}
  BY <1>2 DEF WaitEvent, StartWriteSet, ScanDone, Goes, NoEvent, setVars, kernelVars
<1>3. CASE Found(dir) # {}
  <2>1. PICK fd \in Found(dir) : EventOf(fd, dir) /\ UNCHANGED ref
    BY <1>3 DEF WaitEvent, EventOf
  <2>2. fd \in FDs
    BY DEF Found
  <2> QED BY <1>1, <2>1, <2>2 DEF EventOf, ConstructEvent, kernelVars
<1> QED BY <1>1, <1>2, <1>3

LEMMA SelectTypes ==
    ASSUME IInv, MoreTypes, (\E dir \in Dirs : WaitEvent(dir))
                            \/ PrepareSelect \/ EnterSelect \/ LeaveSelect
                            \/ RepeatSelect \/ DrainData \/ CloseRemoved
    PROVE  MoreTypes'
<1> USE EventFacts
<1>1. ASSUME NEW dir \in Dirs, WaitEvent(dir) PROVE MoreTypes'
  <2>1. UNCHANGED <<fCond, told, failed, sMaxFDPos, sPipe, asked, ready>>
    BY <1>1, ScanOrEvent DEF ThreadOnly, toldVars, refVars
  <2>2. ASSUME NEW fd \in FDs, EventOf(fd, dir) PROVE MoreTypes'
    <3>1. sCookieArray[fd] \in Ids \cup {NoCookie}
      BY DEF IInv, Types
    <3>2. fd + 1 \in Nat /\ sNumFDsProcessed + 1 \in Nat
      BY <2>2 DEF MoreTypes
    <3> QED BY <2>1, <2>2, <3>1, <3>2 DEF EventOf, ConstructEvent, MoreTypes
  <2>3. CASE NoEvent
    BY <2>1, <2>3 DEF NoEvent, MoreTypes
  <2> QED BY <1>1, <2>2, <2>3, ScanOrEvent
<1>2. CASE PrepareSelect
  BY <1>2 DEF PrepareSelect, CopySets, Goes, ThreadOnly, MoreTypes, IInv, Types, toldVars, refVars,
              setVars, kernelVars
<1>3. CASE EnterSelect
  BY <1>3 DEF EnterSelect, CallSelect, Goes, ThreadOnly, MoreTypes, toldVars, refVars, setVars,
              scanVars, kernelVars
<1>4. CASE LeaveSelect
  <2> DEFINE back == Cardinality(asked \cap ready)
  <2>1. back \in Nat
    BY BackType
  <2>2. /\ sNumFDsBack' = back + (IF sPipe THEN 1 ELSE 0)
        /\ at' = IF sPipe THEN "drain" ELSE "waitevent"
        /\ sReturned' = asked \cap ready /\ asked' = {}
        /\ UNCHANGED <<fCond, told, failed, ready, sMaxFDPos, sPipe, sInReadSet, sCurrentFDPos,
                       sNumFDsProcessed, theCurrentEvent>>
    BY <1>4 DEF LeaveSelect, SelectReturns, Goes, ThreadOnly, toldVars, refVars, setVars, kernelVars
  <2> HIDE DEF back
  <2>3. sNumFDsBack' \in Nat /\ (at' = "drain" => sNumFDsBack' # 0)
    BY <2>1, <2>2
  <2> QED BY <2>2, <2>3 DEF MoreTypes
<1>5. CASE RepeatSelect
  BY <1>5 DEF RepeatSelect, SelectAgain, Goes, ThreadOnly, MoreTypes, toldVars, refVars, setVars,
              scanVars, kernelVars
<1>6. CASE DrainData
  <2>1. sNumFDsBack' \in Nat
    BY <1>6 DEF DrainData, DrainPipe, Goes, MoreTypes
  <2> QED BY <1>6, <2>1 DEF DrainData, DrainPipe, Goes, ThreadOnly, MoreTypes, toldVars, refVars,
                            setVars, kernelVars
<1>7. CASE CloseRemoved
  BY <1>7 DEF CloseRemoved, CloseFDs, Goes, ThreadOnly, MoreTypes, toldVars, refVars, setVars, scanVars
<1> QED BY <1>1, <1>2, <1>3, <1>4, <1>5, <1>6, <1>7

LEMMA ThreadTypes ==
    ASSUME IInv, MoreTypes, ResolveEvent \/ ProcessEvent \/ Accept
                            \/ AcceptAndSleep \/ AcceptFails \/ ListenerModWatch
                            \/ ListenerWake \/ ReleaseRef \/ BecomeReady \/ UNCHANGED vars
    PROVE  MoreTypes'
<1> USE EventFacts
<1>1. CASE ResolveEvent
  BY <1>1 DEF ResolveEvent, Resolve, MoreTypes, toldVars, eventVars, setVars, scanVars, kernelVars
<1>2. CASE ProcessEvent
  BY <1>2 DEF ProcessEvent, Goes, MoreTypes, toldVars, refVars, eventVars, setVars, scanVars,
              kernelVars
<1>3. CASE Accept \/ AcceptAndSleep \/ AcceptFails
  BY <1>3 DEF Accept, AcceptAndSleep, AcceptFails, AcceptCall, MayTake, Goes, MoreTypes,
              refVars, setVars, scanVars
<1>4. CASE ListenerModWatch
  <2>1. fFileDesc[ref] \in FDs
    <3>1. ref \in Refs /\ owner[ref] \in Live
      BY <1>4, ConstantFacts DEF ListenerModWatch, Goes, IInv, Types, TableExact, Using
    <3> QED BY <3>1 DEF IInv, Types, OwnDescriptors
  <2>2. sMaxFDPos' \in FDs \cup {PipeFD}
    BY <1>4, <2>1 DEF ListenerModWatch, ModWatch, MoreTypes
  <2> QED BY <1>4, <2>2 DEF ListenerModWatch, Goes, ThreadOnly, MoreTypes, toldVars, refVars,
                            scanVars, kernelVars
<1>5. CASE ListenerWake
  BY <1>5 DEF ListenerWake, WakeSelect, Goes, ThreadOnly, MoreTypes, toldVars, refVars, setVars,
              scanVars, kernelVars
<1>6. CASE ReleaseRef
  BY <1>6 DEF ReleaseRef, Release, MoreTypes, toldVars, eventVars, setVars, scanVars, kernelVars
<1>7. CASE BecomeReady
  <2>1. PICK c \in Refs, dir \in Dirs :
          /\ fFileDesc[c] \in openFDs
          /\ ready' = ready \cup {<<fFileDesc[c], dir>>}
    BY <1>7 DEF BecomeReady
  <2>2. fFileDesc[c] \in FDs
    BY <2>1 DEF IInv, Types
  <2>3. ready' \subseteq FDs \X Dirs
    BY <2>1, <2>2 DEF MoreTypes
  <2> QED BY <1>7, <2>3 DEF BecomeReady, MoreTypes, toldVars, refVars, setVars, scanVars, threadVars
<1>8. CASE UNCHANGED vars
  BY <1>8 DEF vars, MoreTypes, toldVars, refVars, eventVars, setVars, scanVars, kernelVars, threadVars
<1> QED BY <1>1, <1>2, <1>3, <1>4, <1>5, <1>6, <1>7, <1>8

-----------------------------------------------------------------------------
(* The table stays exact.                                                  *)

LEMMA IdsKept ==
    ASSUME IInv, IdsExact, UNCHANGED <<fTable, fUniqueID>>,
           \A d \in Refs : owner'[d] \in Registered => owner[d] \in Registered
                                                       /\ fEventReq'[d] # {}
    PROVE  IdsExact'
BY DEF IdsExact, Registered

(* A new id is one that no context has, so its place in the table is free. *)
LEMMA RequestFirstEventIds ==
    ASSUME IInv, IdsExact, NEW c \in Refs, RequestFirstEvent(c)
    PROVE  IdsExact'
<1> USE ConstantFacts
<1>1. PICK id \in UniqueIDs, mask \in Masks[c] :
        /\ owner[c] = "open" /\ owner' = [owner EXCEPT ![c] = "registered"]
        /\ fUniqueID' = [fUniqueID EXCEPT ![c] = id]
        /\ fEventReq' = [fEventReq EXCEPT ![c] = mask]
        /\ fTable' = [fTable EXCEPT ![id] = IF @ = NULL THEN c ELSE @]
  BY DEF RequestFirstEvent, Moves, Register
<1>2. id \in Ids /\ (\A d \in Refs : fUniqueID[d] # id)
  BY DEF UniqueIDs
<1>3. mask # {}
  OBVIOUS
<1>4. fTable[id] = NULL
  <2>1. fTable[id] # NULL => fTable[id] \in Refs
    BY <1>2 DEF IInv, Types
  <2> QED BY <1>2, <2>1 DEF IdsExact
<1>5. /\ fTable'[id] = c
      /\ \A i \in Ids : i # id => fTable'[i] = fTable[i]
  BY <1>1, <1>2, <1>4 DEF IInv, Types
<1>6. /\ fUniqueID'[c] = id /\ fEventReq'[c] = mask
      /\ \A d \in Refs : d # c => /\ fUniqueID'[d] = fUniqueID[d]
                                  /\ fEventReq'[d] = fEventReq[d]
                                  /\ owner'[d] = owner[d]
  BY <1>1 DEF IInv, Types
<1>7. \A i \in Ids : fTable[i] # NULL => fTable[i] \in Refs /\ fTable[i] # c
  BY <1>1 DEF IInv, Types, TableExact
<1>8. ASSUME NEW i \in Ids, fTable'[i] # NULL PROVE fUniqueID'[fTable'[i]] = i
  <2>1. CASE i = id
    BY <1>5, <1>6, <2>1
  <2>2. CASE i # id
    BY <1>5, <1>6, <1>7, <1>8, <2>2 DEF IdsExact
  <2> QED BY <2>1, <2>2
<1>9. ASSUME NEW d \in Refs, owner'[d] \in Registered
      PROVE  fUniqueID'[d] \in Ids /\ fTable'[fUniqueID'[d]] = d /\ fEventReq'[d] # {}
  <2>1. CASE d = c
    BY <1>2, <1>3, <1>5, <1>6, <2>1
  <2>2. CASE d # c
    BY <1>2, <1>5, <1>6, <1>9, <2>2 DEF IdsExact
  <2> QED BY <2>1, <2>2
<1> QED BY <1>8, <1>9 DEF IdsExact, Registered

(* Nobody in the table is forgotten.                                       *)
LEMMA ForgetIds ==
    ASSUME IInv, IdsExact, NEW c \in Refs, owner[c] \notin Registered,
           UNCHANGED fTable, Forget(c), owner' = [owner EXCEPT ![c] = "none"]
    PROVE  IdsExact'
<1> USE ConstantFacts
<1>1. \A i \in Ids : fTable[i] # NULL => fTable[i] \in Refs /\ fTable[i] # c
  BY DEF IInv, Types, TableExact
<1>2. \A d \in Refs : d # c => /\ fUniqueID'[d] = fUniqueID[d]
                               /\ fEventReq'[d] = fEventReq[d] /\ owner'[d] = owner[d]
  BY DEF Forget, IInv, Types
<1>3. owner'[c] \notin Registered
  BY DEF Registered, IInv, Types
<1> QED BY <1>1, <1>2, <1>3 DEF IdsExact, Registered

(* What is taken out of the table was in it under its own id only.         *)
LEMMA UnRegisterIds ==
    ASSUME IInv, IdsExact, NEW c \in Refs, UnRegisterContext(c)
    PROVE  IdsExact'
<1> USE ConstantFacts
<1>1. CASE Unused(c)
  <2>1. /\ owner' = [owner EXCEPT ![c] = "removeevent"]
        /\ fTable' = [id \in Ids |-> IF fTable[id] = c THEN NULL ELSE fTable[id]]
        /\ UNCHANGED <<fUniqueID, fEventReq>>
    BY <1>1 DEF UnRegisterContext, UnRegister, contextVars
  <2>2. \A i \in Ids : fTable'[i] # NULL => fTable'[i] = fTable[i]
    BY <2>1 DEF IInv, Types
  <2>3. ASSUME NEW d \in Refs, owner'[d] \in Registered
        PROVE  d # c /\ owner[d] \in Registered
    BY <2>1, <2>3 DEF Registered, IInv, Types
  <2>4. ASSUME NEW d \in Refs, owner'[d] \in Registered
        PROVE  fUniqueID[d] \in Ids /\ fTable'[fUniqueID[d]] = d /\ fEventReq[d] # {}
    BY <2>1, <2>3, <2>4 DEF IdsExact
  <2> QED BY <2>1, <2>2, <2>4 DEF IdsExact, Registered
<1>2. CASE ~Unused(c)
  <2>1. UNCHANGED <<owner, fTable, fUniqueID, fEventReq>>
    BY <1>2 DEF UnRegisterContext, UnRegister, contextVars, IInv, Types
  <2> QED BY <2>1 DEF IdsExact, Registered
<1> QED BY <1>1, <1>2

LEMMA OwnerIds ==
    ASSUME IInv, IdsExact, NEW c \in Refs, OwnerStep(c)
    PROVE  IdsExact'
<1> USE ConstantFacts
<1>1. CASE Open(c) \/ ModWatchContext(c) \/ WakeForContext(c) \/ Cleanup(c)
           \/ RemoveContextEvent(c) \/ AcceptInTask(c)
  <2>1. UNCHANGED <<fTable, fUniqueID, fEventReq>>
    BY <1>1 DEF Open, ModWatchContext, WakeForContext, Cleanup, RemoveContextEvent,
                AcceptInTask, refVars, contextVars
  <2>2. \A d \in Refs : owner'[d] \in Registered => owner[d] \in Registered
    BY <1>1 DEF Open, ModWatchContext, WakeForContext, Cleanup, RemoveContextEvent, Moves,
                AcceptInTask, IInv, Types, Registered
  <2> QED BY <2>1, <2>2, IdsKept DEF IdsExact
<1>2. CASE RequestEvent(c)
  <2>1. PICK mask \in Masks[c] : /\ owner[c] = "idle"
                                 /\ owner' = [owner EXCEPT ![c] = "registered"]
                                 /\ fEventReq' = [fEventReq EXCEPT ![c] = mask]
                                 /\ UNCHANGED <<fTable, fUniqueID>>
    BY <1>2 DEF RequestEvent, Moves, refVars
  <2>2. mask # {}
    OBVIOUS
  <2>3. \A d \in Refs : owner'[d] \in Registered => owner[d] \in Registered
    BY <2>1 DEF IInv, Types, Registered
  <2>4. \A d \in Refs : owner'[d] \in Registered => fEventReq'[d] # {}
    BY <2>1, <2>2, <2>3 DEF IInv, Types, IdsExact
  <2> QED BY <2>1, <2>3, <2>4, IdsKept
<1>3. CASE CleanupUnused(c) \/ WakeForRemoval(c)
  <2>1. /\ owner[c] \in {"open", "removed"} /\ owner' = [owner EXCEPT ![c] = "none"]
        /\ Forget(c) /\ UNCHANGED fTable
    BY <1>3 DEF CleanupUnused, WakeForRemoval, Moves, refVars
  <2> QED BY <2>1, ForgetIds DEF Registered
<1> QED BY <1>1, <1>2, <1>3, RequestFirstEventIds, UnRegisterIds DEF OwnerStep, OwnerGoesOn

LEMMA OtherIds ==
    ASSUME IInv, IdsExact, ThreadStep \/ RepeatSelect \/ BecomeReady \/ UNCHANGED vars
    PROVE  IdsExact'
<1>1. UNCHANGED <<fTable, fUniqueID, fEventReq, owner>>
  BY DEF ThreadStep, WaitEvent, PrepareSelect, EnterSelect, LeaveSelect, DrainData,
         CloseRemoved, ResolveEvent, Resolve, ProcessEvent, Accept, AcceptAndSleep,
         AcceptFails, AcceptCall, ListenerModWatch, ListenerWake, ReleaseRef, Release, RepeatSelect, BecomeReady, ThreadOnly, vars,
         refVars, contextVars
<1> QED BY <1>1 DEF IdsExact, Registered

-----------------------------------------------------------------------------
(* Who is watched or told stays so.                                        *)

Waits(c) == owner[c] \in {"modwatched", "idle"}

(* A context that waits has its descriptor to itself.                      *)
LEMMA OwnBits ==
    ASSUME IInv, NEW c \in Refs, NEW d \in Refs, c # d,
           owner[c] \in Live, owner[d] \in Live
    PROVE  /\ fFileDesc[c] \in FDs /\ fFileDesc[d] \in FDs
           /\ fFileDesc[c] # fFileDesc[d]
           /\ Wants(d) \cap Bits(fFileDesc[c]) = {}
<1>1. fFileDesc[c] # fFileDesc[d] /\ fFileDesc[c] \in FDs /\ fFileDesc[d] \in FDs
  BY DEF IInv, Types, OwnDescriptors
<1> QED BY <1>1 DEF Wants, Bits

(* A step that changes neither the sets nor where the thread is.           *)
LEMMA SetsKept ==
    ASSUME IInv, Heard, Woken, UNCHANGED <<sSet, sCookieArray, at, ref, theCurrentEvent>>,
           UNCHANGED Asking, sPipe => sPipe',
           \A d \in Refs : Waits(d)' =>
               /\ Waits(d) /\ (owner'[d] = "idle" => owner[d] = "idle" \/ sPipe')
               /\ fFileDesc'[d] = fFileDesc[d] /\ fUniqueID'[d] = fUniqueID[d]
               /\ fEventReq'[d] = fEventReq[d] /\ (Answered(d) => Answered(d)')
               /\ \A id \in Ids : fTable[id] = d => fTable'[id] = d
    PROVE  Heard' /\ Woken'
<1>1. ASSUME NEW d \in Refs, Waits(d)'
      PROVE  /\ Wants(d)' = Wants(d) /\ (Watching(d)' <=> Watching(d))
             /\ InFlight(d) => InFlight(d)'
  <2>1. Wants(d)' = Wants(d)
    BY <1>1 DEF Wants
  <2>2. Watching(d)' <=> Watching(d)
    BY <1>1, <2>1 DEF Watching
  <2>3. InFlight(d) => InFlight(d)'
    BY <1>1 DEF InFlight, IInv, TableExact
  <2> QED BY <2>1, <2>2, <2>3
<1>2. Heard'
  BY <1>1 DEF Heard, Waits
<1>3. ASSUME NEW d \in Refs, owner'[d] = "idle", Watching(d)', at \in {"select", "selecting"}
      PROVE  Wants(d)' \subseteq Asking' \/ sPipe'
  BY <1>1, <1>3 DEF Woken, Waits
<1> QED BY <1>2, <1>3 DEF Woken

(* The owner or, if it is a listener's, the event thread asks for c.       *)
LEMMA ModWatchKept ==
    ASSUME IInv, MoreTypes, SetBounded, Heard, Woken, NEW c \in Refs, owner[c] \in Live,
           ModWatch(fFileDesc[c], fEventReq[c], fUniqueID[c]),
           UNCHANGED <<fTable, fFileDesc, fUniqueID, fEventReq, toldVars, theCurrentEvent>>,
           UNCHANGED <<sReturned, asked, sPipe, ref>>,
           \A d \in Refs : d # c => owner'[d] = owner[d],
           owner'[c] = "idle" => at' \notin {"select", "selecting"},
           at' = at \/ (ref = c /\ at = "modwatch" /\ at' = "wake")
    PROVE  SetBounded' /\ Heard' /\ Woken'
<1> DEFINE fd == fFileDesc[c]
<1>1. fd \in FDs /\ fd \in Nat
  BY EventFacts DEF IInv, Types, OwnDescriptors
<1>2. /\ sSet' = (sSet \ Bits(fd)) \cup Wants(c)
      /\ sCookieArray' = [sCookieArray EXCEPT ![fd] = fUniqueID[c]]
      /\ sMaxFDPos' = IF fd > sMaxFDPos THEN fd ELSE sMaxFDPos
  BY DEF ModWatch, Wants
<1>3. SetBounded'
  <2>1. sMaxFDPos \in Nat
    BY EventFacts DEF MoreTypes
  <2>2. \A b \in sSet : b[1] \in Nat
    BY EventFacts DEF IInv, Types
  <2>3. sMaxFDPos <= sMaxFDPos' /\ fd <= sMaxFDPos' /\ sMaxFDPos' \in Nat
    BY <1>1, <1>2, <2>1
  <2>4. \A b \in Wants(c) : b[1] = fd
    BY DEF Wants
  <2>5. \A b \in sSet : b[1] <= sMaxFDPos
    BY DEF SetBounded
  <2>6. ASSUME NEW b \in sSet' PROVE b[1] <= sMaxFDPos'
    <3>1. CASE b \in Wants(c)
      BY <2>3, <2>4, <3>1
    <3>2. CASE b \in sSet
      BY <2>1, <2>2, <2>3, <2>5, <3>2
    <3> QED BY <1>2, <2>6, <3>1, <3>2
  <2> QED BY <2>6 DEF SetBounded
<1>4. Watching(c)'
  <2>1. Wants(c)' = Wants(c)
    BY DEF Wants
  <2> QED BY <1>1, <1>2, <2>1 DEF Watching, IInv, Types
<1>5. ASSUME NEW d \in Refs, d # c, owner[d] \in Live
      PROVE  /\ Wants(d)' = Wants(d) /\ (Watching(d)' <=> Watching(d))
             /\ InFlight(d) => InFlight(d)'
  <2>1. Wants(d) \cap Bits(fd) = {} /\ fFileDesc[d] # fd /\ fFileDesc[d] \in FDs
    BY <1>5, OwnBits
  <2>2. Wants(d)' = Wants(d)
    BY DEF Wants
  <2>3. Wants(d) \cap Wants(c) = {}
    BY <2>1 DEF Wants
  <2>4. Wants(d) \subseteq sSet' <=> Wants(d) \subseteq sSet
    BY <1>2, <2>1, <2>3
  <2>5. sCookieArray'[fFileDesc[d]] = sCookieArray[fFileDesc[d]]
    BY <1>2, <2>1 DEF IInv, Types
  <2>6. InFlight(d) => InFlight(d)'
    BY <1>5 DEF InFlight
  <2> QED BY <2>2, <2>4, <2>5, <2>6 DEF Watching
<1>6. \A d \in Refs : owner[d] \in {"modwatched", "idle"} => owner[d] \in Live
  BY DEF Live, Watched, Registered
<1>7. Heard'
  BY <1>4, <1>5, <1>6 DEF Heard, Answered, toldVars
<1>8. ASSUME NEW d \in Refs, owner'[d] = "idle", Watching(d)', at' \in {"select", "selecting"}
      PROVE  Wants(d)' \subseteq Asking' \/ sPipe'
  <2>1. d # c /\ at' = at
    BY <1>8
  <2>2. Asking' = Asking
    BY <2>1 DEF Asking
  <2> QED BY <1>5, <1>6, <1>8, <2>1, <2>2 DEF Woken
<1> QED BY <1>3, <1>7, <1>8 DEF Woken

LEMMA RemoveKept ==
    ASSUME IInv, MoreTypes, SetBounded, Heard, Woken, NEW c \in Refs, RemoveContextEvent(c)
    PROVE  SetBounded' /\ Heard' /\ Woken'
<1> DEFINE fd == fFileDesc[c]
<1>1. /\ owner[c] = "removeevent" /\ owner' = [owner EXCEPT ![c] = "removed"]
      /\ RemoveEvent(fd)
      /\ UNCHANGED <<fTable, fFileDesc, fUniqueID, fEventReq, toldVars, theCurrentEvent>>
      /\ UNCHANGED <<asked, sPipe, ref, at>>
  BY DEF RemoveContextEvent, Moves, refVars, contextVars, threadVars
<1>2. owner[c] \in Live /\ fd \in FDs
  BY <1>1 DEF IInv, Types, OwnDescriptors, Live, Watched
<1>3. SetBounded'
  BY <1>1, <1>2, HighestType DEF RemoveEvent, SetBounded, IInv, Types
<1>4. ASSUME NEW d \in Refs, owner'[d] \in {"modwatched", "idle"}
      PROVE  /\ owner[d] = owner'[d]
             /\ Wants(d)' = Wants(d) /\ (Watching(d)' <=> Watching(d))
             /\ InFlight(d) => InFlight(d)'
             /\ Wants(d) \subseteq Asking => Wants(d) \subseteq Asking'
  <2>1. d # c /\ owner[d] = owner'[d] /\ owner[d] \in Live
    BY <1>1, <1>4 DEF IInv, Types, Live, Watched, Registered
  <2>2. Wants(d) \cap Bits(fd) = {} /\ fFileDesc[d] # fd /\ fFileDesc[d] \in FDs
    BY <1>2, <2>1, OwnBits
  <2>3. Wants(d)' = Wants(d)
    BY <1>1 DEF Wants
  <2>4. sCookieArray'[fFileDesc[d]] = sCookieArray[fFileDesc[d]]
    BY <1>1, <2>2 DEF RemoveEvent, IInv, Types
  <2>5. Wants(d) \subseteq sSet' <=> Wants(d) \subseteq sSet
    BY <1>1, <2>2 DEF RemoveEvent
  <2>6. InFlight(d) => InFlight(d)'
    BY <1>1 DEF InFlight
  <2>7. Asking \ Bits(fd) \subseteq Asking'
    BY <1>1 DEF Asking, RemoveEvent
  <2> QED BY <1>1, <2>1, <2>2, <2>3, <2>4, <2>5, <2>6, <2>7 DEF Watching
<1>5. Heard'
  BY <1>1, <1>4 DEF Heard, Answered, toldVars
<1>6. Woken'
  BY <1>1, <1>4 DEF Woken
<1> QED BY <1>3, <1>5, <1>6

LEMMA OwnerHeard ==
    ASSUME HInv, NEW c \in Refs, OwnerStep(c)
    PROVE  SetBounded' /\ Heard' /\ Woken'
<1> USE ConstantFacts DEF HInv
<1>1. CASE ModWatchContext(c)
  <2>1. /\ owner[c] \in Live /\ owner' = [owner EXCEPT ![c] = "modwatched"]
        /\ ModWatch(fFileDesc[c], fEventReq[c], fUniqueID[c])
        /\ UNCHANGED <<fTable, fFileDesc, fUniqueID, fEventReq, toldVars, theCurrentEvent>>
        /\ UNCHANGED <<sReturned, asked, sPipe, ref>> /\ at' = at
    BY <1>1 DEF ModWatchContext, Moves, refVars, contextVars, threadVars, Live, Watched,
                Registered
  <2>2. owner'[c] # "idle" /\ \A d \in Refs : d # c => owner'[d] = owner[d]
    BY <2>1 DEF IInv, Types
  <2> QED BY <2>1, <2>2, ModWatchKept
<1>2. CASE RemoveContextEvent(c)
  BY <1>2, RemoveKept
<1>3. CASE AcceptInTask(c)
  <2>1. /\ UNCHANGED <<sSet, sCookieArray, sMaxFDPos, sReturned, asked, sPipe, owner>>
        /\ UNCHANGED <<at, ref, theCurrentEvent, fTable, contextVars>>
    BY <1>3 DEF AcceptInTask, refVars, setVars, threadVars
  <2>2. SetBounded' /\ UNCHANGED Asking
    BY <2>1 DEF SetBounded, Asking
  <2>3. \A d \in Refs : Answered(d) => Answered(d)'
    BY <1>3 DEF AcceptInTask, Answered, MoreTypes, toldVars
  <2>4. Heard' /\ Woken'
    BY <2>1, <2>2, <2>3, SetsKept DEF Waits, contextVars
  <2> QED BY <2>2, <2>4
<1>4. CASE /\ ~ModWatchContext(c) /\ ~RemoveContextEvent(c) /\ ~AcceptInTask(c)
  <2>1. /\ UNCHANGED <<sSet, sCookieArray, sMaxFDPos, sReturned, asked>>
        /\ UNCHANGED <<at, ref, theCurrentEvent>> /\ (sPipe => sPipe')
    BY <1>4 DEF OwnerStep, OwnerGoesOn, Open, RequestFirstEvent, WakeForContext,
                RequestEvent, Cleanup, CleanupUnused, UnRegisterContext, WakeForRemoval,
                WakeSelect, eventVars, setVars, threadVars
  <2>2. SetBounded' /\ UNCHANGED Asking
    BY <2>1 DEF SetBounded, Asking
  <2>3. ASSUME NEW d \in Refs, d # c
        PROVE  /\ owner'[d] = owner[d] /\ fFileDesc'[d] = fFileDesc[d]
               /\ fUniqueID'[d] = fUniqueID[d] /\ fEventReq'[d] = fEventReq[d]
               /\ Answered(d) => Answered(d)'
    BY <1>4, <2>3
       DEF OwnerStep, OwnerGoesOn, Open, RequestFirstEvent, WakeForContext, RequestEvent,
           Cleanup, CleanupUnused, UnRegisterContext, WakeForRemoval, Forget, Moves,
           Answered, toldVars, contextVars, IInv, Types, MoreTypes
  <2>4. ASSUME Waits(c)'
        PROVE  /\ owner[c] = "modwatched" /\ sPipe' /\ UNCHANGED <<contextVars, toldVars, fTable>>
    BY <1>4, <2>4
       DEF OwnerStep, OwnerGoesOn, Open, RequestFirstEvent, WakeForContext, RequestEvent,
           Cleanup, CleanupUnused, UnRegisterContext, WakeForRemoval, Moves, WakeSelect,
           refVars, IInv, Types, Waits
  <2>5. ASSUME NEW d \in Refs, NEW id \in Ids, d # c, fTable[id] = d
        PROVE  fTable'[id] = d
    <3>1. CASE RequestFirstEvent(c)
      BY <2>5, <3>1 DEF RequestFirstEvent, Register, IInv, Types
    <3>2. CASE UnRegisterContext(c)
      BY <2>5, <3>2 DEF UnRegisterContext, UnRegister
    <3>3. CASE ~RequestFirstEvent(c) /\ ~UnRegisterContext(c)
      BY <1>4, <2>5, <3>3
         DEF OwnerStep, OwnerGoesOn, Open, WakeForContext, RequestEvent, Cleanup,
             CleanupUnused, WakeForRemoval, refVars
    <3> QED BY <3>1, <3>2, <3>3
  <2>6. ASSUME NEW d \in Refs, Waits(d)'
        PROVE  /\ Waits(d) /\ (owner'[d] = "idle" => owner[d] = "idle" \/ sPipe')
               /\ fFileDesc'[d] = fFileDesc[d] /\ fUniqueID'[d] = fUniqueID[d]
               /\ fEventReq'[d] = fEventReq[d] /\ (Answered(d) => Answered(d)')
               /\ \A id \in Ids : fTable[id] = d => fTable'[id] = d
    <3>1. CASE d = c
      BY <2>4, <2>6, <3>1 DEF Waits, Answered, toldVars, contextVars
    <3>2. CASE d # c
      BY <2>3, <2>5, <2>6, <3>2 DEF Waits
    <3> QED BY <3>1, <3>2
  <2>7. Heard' /\ Woken'
    BY <2>1, <2>2, <2>6, SetsKept
  <2> QED BY <2>2, <2>7
<1> QED BY <1>1, <1>2, <1>3, <1>4

(* The context of an event that is constructed is found by its cookie.     *)
LEMMA WaitEventHeard ==
    ASSUME HInv, NEW dir \in Dirs, WaitEvent(dir)
    PROVE  SetBounded' /\ Heard' /\ Woken'
<1> USE ConstantFacts DEF HInv
<1>1. /\ at = "waitevent"
      /\ UNCHANGED <<ref, sCookieArray, sMaxFDPos, fTable, contextVars, toldVars, owner>>
      /\ NoEvent \/ \E fd \in FDs : EventOf(fd, dir)
  BY ScanOrEvent DEF ThreadOnly, refVars
<1>2. sSet' \subseteq sSet
  BY <1>1 DEF NoEvent, EventOf, ConstructEvent, Disarm
<1>3. at' \in {"waitevent", "resolve"}
  BY <1>1 DEF NoEvent, EventOf
<1>4. SetBounded' /\ Woken'
  BY <1>1, <1>2, <1>3 DEF SetBounded, Woken
<1>5. ASSUME NEW d \in Refs, owner[d] \in {"modwatched", "idle"}
      PROVE  Watching(d)' \/ InFlight(d)' \/ Answered(d)
  <2>1. Watching(d) \/ Answered(d)
    BY <1>1, <1>5 DEF Heard, InFlight
  <2>2. Wants(d)' = Wants(d)
    BY <1>1 DEF Wants, contextVars
  <2>3. CASE NoEvent
    BY <1>1, <2>1, <2>2, <2>3 DEF Watching, NoEvent, contextVars
  <2>4. ASSUME NEW fd \in FDs, EventOf(fd, dir), Watching(d), fFileDesc[d] = fd
        PROVE  InFlight(d)'
    <3>1. fUniqueID[d] \in Ids /\ fTable[fUniqueID[d]] = d
      BY <1>5 DEF IdsExact, Registered
    <3>2. sCookieArray[fd] = fUniqueID[d]
      BY <2>4 DEF Watching
    <3>3. at' = "resolve" /\ theCurrentEvent' = fUniqueID[d]
      BY <2>4, <3>1, <3>2 DEF EventOf
    <3> QED BY <1>1, <3>1, <3>3 DEF InFlight
  <2>5. ASSUME NEW fd \in FDs, EventOf(fd, dir), Watching(d), fFileDesc[d] # fd
        PROVE  Watching(d)'
    <3>1. sSet' = sSet \ Bits(fd)
      BY <2>5 DEF EventOf, ConstructEvent, Disarm
    <3>2. Wants(d) \cap Bits(fd) = {}
      BY <2>5 DEF Wants, Bits
    <3> QED BY <1>1, <2>2, <2>5, <3>1, <3>2 DEF Watching, contextVars
  <2> QED BY <1>1, <2>1, <2>3, <2>4, <2>5
<1>6. Heard'
  BY <1>1, <1>5 DEF Heard, Answered, toldVars
<1> QED BY <1>4, <1>6

(* The event thread between two scans: select knows of all that is watched *)
(* when it begins, and what is watched later wakes it.                     *)
LEMMA SelectHeard ==
    ASSUME HInv, PrepareSelect \/ EnterSelect \/ LeaveSelect \/ RepeatSelect \/ DrainData
                 \/ CloseRemoved
    PROVE  SetBounded' /\ Heard' /\ Woken'
<1> USE DEF HInv
<1>1. /\ UNCHANGED <<sSet, sCookieArray, sMaxFDPos, fTable, contextVars, toldVars, owner, ref>>
      /\ at \in {"waitevent", "select", "selecting", "drain", "close"}
  BY DEF PrepareSelect, EnterSelect, LeaveSelect, RepeatSelect, DrainData, CloseRemoved,
         CopySets, CallSelect, SelectReturns, SelectAgain, DrainPipe, CloseFDs, Goes,
         ThreadOnly, refVars, setVars
<1>2. ASSUME NEW d \in Refs
      PROVE  Wants(d)' = Wants(d) /\ (Watching(d)' <=> Watching(d)) /\ ~InFlight(d)
  BY <1>1 DEF Wants, Watching, InFlight, contextVars
<1>3. SetBounded' /\ Heard'
  BY <1>1, <1>2 DEF SetBounded, Heard, Answered, toldVars
<1>4. CASE PrepareSelect
  <2>1. Asking' = sSet
    BY <1>4 DEF PrepareSelect, CopySets, Goes, Asking
  <2> QED BY <1>1, <1>2, <1>3, <2>1 DEF Woken, Watching
<1>5. CASE EnterSelect
  <2>1. /\ Asking = sReturned /\ at = "select"
        /\ Asking' = {b \in sReturned : b[1] <= sMaxFDPos} /\ UNCHANGED sPipe
    BY <1>5 DEF EnterSelect, CallSelect, Goes, Asking
  <2>2. ASSUME NEW d \in Refs, Watching(d), Wants(d) \subseteq Asking
        PROVE  Wants(d) \subseteq Asking'
    BY <2>1, <2>2 DEF SetBounded, Watching
  <2> QED BY <1>1, <1>2, <1>3, <2>1, <2>2 DEF Woken
<1>6. CASE ~PrepareSelect /\ ~EnterSelect
  <2>1. at' \notin {"select", "selecting"}
    BY <1>6 DEF LeaveSelect, RepeatSelect, DrainData, CloseRemoved, Goes
  <2> QED BY <1>3, <2>1 DEF Woken
<1> QED BY <1>4, <1>5, <1>6

(* An event on its way reaches its context, which asks again, tells its    *)
(* task or fails to accept.                                                *)
LEMMA ProcessHeard ==
    ASSUME HInv, ResolveEvent \/ ProcessEvent \/ Accept \/ AcceptAndSleep \/ AcceptFails
                 \/ ListenerModWatch \/ ListenerWake \/ ReleaseRef
    PROVE  SetBounded' /\ Heard' /\ Woken'
<1> USE ConstantFacts DEF HInv
<1>1. CASE ListenerModWatch
  <2>1. /\ ModWatch(fFileDesc[ref], fEventReq[ref], fUniqueID[ref])
        /\ UNCHANGED <<fTable, fFileDesc, fUniqueID, fEventReq, toldVars, theCurrentEvent>>
        /\ UNCHANGED <<sReturned, asked, sPipe, ref, owner>>
        /\ at = "modwatch" /\ at' = "wake"
    BY <1>1 DEF ListenerModWatch, Goes, ThreadOnly, refVars, contextVars
  <2>2. ref \in Refs /\ owner[ref] \in Live
    BY <2>1 DEF IInv, Types, TableExact, Using
  <2> QED BY <2>1, <2>2, ModWatchKept
<1>2. CASE ~ListenerModWatch
  <2>1. /\ UNCHANGED <<sSet, sCookieArray, sMaxFDPos, fTable, contextVars, owner>>
        /\ at' \notin {"select", "selecting"}
    BY <1>2 DEF ResolveEvent, Resolve, ProcessEvent, Accept, AcceptAndSleep, AcceptFails,
                AcceptCall, ListenerWake, ReleaseRef, Release, Goes, ThreadOnly, refVars,
                eventVars, setVars
  <2>2. SetBounded' /\ Woken'
    BY <2>1 DEF SetBounded, Woken
  <2>3. ASSUME NEW d \in Refs PROVE Watching(d)' <=> Watching(d)
    BY <2>1 DEF Wants, Watching, contextVars
  <2>4. ASSUME NEW d \in Refs, InFlight(d) \/ Answered(d) PROVE InFlight(d)' \/ Answered(d)'
    <3>1. CASE ResolveEvent
      BY <2>4, <3>1 DEF ResolveEvent, Answered, toldVars, InFlight, IInv, TableExact, Using
    <3>2. CASE ProcessEvent \/ AcceptAndSleep
      BY <2>4, <3>2 DEF ProcessEvent, AcceptAndSleep, Goes, Answered, InFlight, MoreTypes
    <3>3. CASE Accept
      BY <2>4, <3>3 DEF Accept, Goes, Answered, InFlight
    <3>4. CASE AcceptFails
      BY <2>4, <3>4 DEF AcceptFails, Goes, Answered, InFlight
    <3>5. CASE ListenerWake \/ ReleaseRef
      BY <2>4, <3>5 DEF ListenerWake, ReleaseRef, Goes, ThreadOnly, Answered, toldVars,
                        InFlight
    <3> QED BY <1>2, <3>1, <3>2, <3>3, <3>4, <3>5
  <2>5. Heard'
    BY <2>1, <2>3, <2>4 DEF Heard
  <2> QED BY <2>2, <2>5
<1> QED BY <1>1, <1>2

LEMMA StutterHeard ==
    ASSUME HInv, BecomeReady \/ UNCHANGED vars
    PROVE  SetBounded' /\ Heard' /\ Woken'
<1>1. UNCHANGED <<sSet, sCookieArray, sMaxFDPos, sReturned, asked, sPipe, fTable,
                  contextVars, toldVars, owner, at, ref, theCurrentEvent>>
  BY DEF BecomeReady, vars, eventVars, setVars, refVars, threadVars
<1> QED BY <1>1 DEF HInv, SetBounded, Heard, Woken, Watching, Wants, InFlight, Asking,
                    Answered, toldVars, contextVars

LEMMA HeardInvariant == Spec => []HInv
<1>1. HInv /\ [Next]_vars => HInv'
  <2> SUFFICES ASSUME HInv, [Next]_vars PROVE HInv'
    OBVIOUS
  <2>1. IInv /\ MoreTypes /\ IdsExact /\ SetBounded
    BY DEF HInv
  <2>2. IInv'
    BY <2>1, InductiveStep
  <2>3. ASSUME NEW c \in Refs, OwnerStep(c)
        PROVE  MoreTypes' /\ IdsExact' /\ SetBounded' /\ Heard' /\ Woken'
    BY <2>1, <2>3, OwnerTypes, OwnerIds, OwnerHeard
  <2>4. CASE ThreadStep \/ RepeatSelect \/ BecomeReady \/ UNCHANGED vars
    <3>1. IdsExact'
      BY <2>1, <2>4, OtherIds
    <3>2. MoreTypes'
      BY <2>1, <2>4, SelectTypes, ThreadTypes DEF ThreadStep
    <3>3. SetBounded' /\ Heard' /\ Woken'
      BY <2>4, WaitEventHeard, SelectHeard, ProcessHeard, StutterHeard DEF ThreadStep
    <3> QED BY <2>2, <3>1, <3>2, <3>3 DEF HInv
  <2> QED BY <2>2, <2>3, <2>4 DEF HInv, Next
<1> QED BY InitHInv, <1>1, PTL DEF Spec

(* Once RequestEvent returned, a context is watched for what it asked for, *)
(* unless the event is on its way or its task was told or, if it is a      *)
(* listener's, its own accept failed; and the select in progress watches   *)
(* too or will be woken: no event or removal of another, and no select     *)
(* that began before, makes it deaf (EventContext.cpp:95-167, 210-229;     *)
(* TCPListenerSocket.cpp:58-193; ev.cpp:127-277, 351-420).                 *)
THEOREM AskedStaysSelected == Spec => []AskedIsSelected
<1>1. HInv => AskedIsSelected
  <2> SUFFICES ASSUME HInv PROVE AskedIsSelected
    OBVIOUS
  <2> USE ConstantFacts, EventFacts DEF HInv
  <2>1. RefTypeOK /\ SelectTypeOK
    <3>1. sCookieArray \in [FDs -> Nat]
      <4>1. Ids \cup {NoCookie} \subseteq Nat
        BY DEF NoCookie
      <4> QED BY <4>1 DEF IInv, Types
    <3>2. sFDsToClose \subseteq FDs
      BY DEF IInv, Types
    <3> QED BY <3>1, <3>2 DEF IInv, Types, MoreTypes, RefTypeOK, SelectTypeOK
  <2>2. TypeOK
    BY <2>1 DEF TypeOK, IInv, Types, MoreTypes, Live, Watched, Registered, NoCookie
  <2>3. ASSUME NEW c \in Refs, owner[c] = "idle", Watching(c) PROVE Armed(c)
    <3>1. PICK dir \in fEventReq[c] : TRUE
      BY <2>3 DEF IdsExact, Registered
    <3>2. <<fFileDesc[c], dir>> \in sSet
      BY <2>3, <3>1 DEF Watching, Wants
    <3>3. fFileDesc[c] <= sMaxFDPos
      BY <3>2 DEF SetBounded
    <3> QED BY <2>3, <3>3 DEF Armed, Watching, Wants
  <2>4. AskedIsWatched
    BY <2>3 DEF AskedIsWatched, Heard, Answered
  <2>5. SelectIsWoken
    BY DEF SelectIsWoken, Woken, Armed, Watching, Wants, Asking
  <2> QED BY <2>2, <2>4, <2>5 DEF AskedIsSelected
<1> QED BY HeardInvariant, <1>1, PTL

=============================================================================
