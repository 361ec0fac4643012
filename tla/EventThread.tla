----------------------------- MODULE EventThread ----------------------------
(***************************************************************************)
(* Event contexts and the event thread (EventContext.cpp), on the          *)
(* reference table and the select shim: a context owns a descriptor and    *)
(* asks for events on it, one at a time; the thread that selects finds the *)
(* context of an event in the table and signals its task.                  *)
(*                                                                         *)
(* RequestEvent and Cleanup are called by the owner of a context, its task *)
(* as a rule; the context of a listener accepts and asks for its next      *)
(* event from within ProcessEvent, on the event thread, or on its task     *)
(* after it slept.  When accept fails it does neither; out of descriptors, *)
(* where the code exits, nothing more happens (TCPListenerSocket.cpp).     *)
(***************************************************************************)
EXTENDS OSRefTable, SelectEvents

CONSTANTS
    Listeners,
    Unprompted, \* contexts whose owner may ask again before it is told
    Masks       \* what the owner of each may ask for: sets of directions

ASSUME EventAssumption ==
    /\ Listeners \subseteq Refs /\ Unprompted \subseteq Refs
    /\ Masks \in [Refs -> SUBSET ((SUBSET Dirs) \ {{}})]
    /\ Ids \subseteq Nat \ {NoCookie} /\ NULL \notin FDs

VARIABLES
    fFileDesc, fUniqueID, fEventReq,    \* of each context
    told,           \* whether its task is signalled, or sleeps between two
                    \* accepts, and has not run since
    failed,         \* listeners whose last accept failed
    owner,          \* where the owner is
    theCurrentEvent, ref, at            \* the event thread

contextVars == <<fFileDesc, fUniqueID, fEventReq>>
toldVars == <<told, failed>>
threadVars == <<theCurrentEvent, ref, at>>
vars == <<refVars, eventVars, contextVars, toldVars, owner, threadVars>>

TypeOK ==
    /\ RefTypeOK /\ SelectTypeOK
    /\ fFileDesc \in [Refs -> FDs \cup {NULL}]
    /\ fUniqueID \in [Refs -> Ids \cup {0}]
    /\ fEventReq \in [Refs -> SUBSET Dirs]
    /\ told \in [Refs -> BOOLEAN]
    /\ failed \subseteq Listeners
    /\ owner \in [Refs -> {"none", "open", "registered", "modwatched", "idle",
                           "unregister", "removeevent", "removed"}]
    /\ theCurrentEvent \in Ids \cup {NoCookie}
    /\ ref \in Refs \cup {NULL}
    /\ at \in {"waitevent", "select", "selecting", "drain", "close",
               "resolve", "process", "modwatch", "wake", "release"}

Init ==
    /\ RefInit /\ SelectInit
    /\ fFileDesc = [c \in Refs |-> NULL]
    /\ fUniqueID = [c \in Refs |-> 0]
    /\ fEventReq = [c \in Refs |-> {}]
    /\ told = [c \in Refs |-> FALSE]
    /\ failed = {}
    /\ owner = [c \in Refs |-> "none"]
    /\ theCurrentEvent = NoCookie /\ ref = NULL /\ at = "waitevent"

Moves(c, from, to) == owner[c] = from /\ owner' = [owner EXCEPT ![c] = to]

-----------------------------------------------------------------------------
(* The owner of a context.                                                 *)

(* A socket is opened or accepted: the kernel gives its lowest descriptor. *)
Open(c) ==
    \E fd \in FDs \ openFDs :
        /\ \A f \in FDs \ openFDs : fd <= f
        /\ Moves(c, "none", "open")
        /\ openFDs' = openFDs \cup {fd}
        /\ fFileDesc' = [fFileDesc EXCEPT ![c] = fd]
        /\ UNCHANGED <<refVars, setVars, sReturned, sFDsToClose, sPipe, scanVars,
                       asked, ready, fUniqueID, fEventReq, toldVars, threadVars>>

(* Fault: an id that is still in use comes round again.                    *)
UniqueIDs_Any == Ids

(* sUniqueID starts again after ten million: by then an id is free.        *)
UniqueIDs ==
    {id \in Ids : /\ \A c \in Refs : fUniqueID[c] # id
                  /\ theCurrentEvent # id}

(* The first RequestEvent, up to select_watchevent.                        *)
RequestFirstEvent(c) ==
    \E id \in UniqueIDs, mask \in Masks[c] :
        /\ Moves(c, "open", "registered")
        /\ fUniqueID' = [fUniqueID EXCEPT ![c] = id]
        /\ fEventReq' = [fEventReq EXCEPT ![c] = mask]
        /\ Register(c, id)
        /\ UNCHANGED <<eventVars, fFileDesc, toldVars, threadVars>>

ModWatchContext(c) ==
    /\ Moves(c, "registered", "modwatched")
    /\ ModWatch(fFileDesc[c], fEventReq[c], fUniqueID[c])
    /\ UNCHANGED <<refVars, sReturned, sFDsToClose, sPipe, scanVars, asked, kernelVars,
                   contextVars, toldVars, threadVars>>

(* RequestEvent returns.                                                   *)
WakeForContext(c) ==
    /\ Moves(c, "modwatched", "idle")
    /\ WakeSelect
    /\ UNCHANGED <<refVars, setVars, sReturned, sFDsToClose, scanVars, asked, kernelVars,
                   contextVars, toldVars, threadVars>>

MayTake(c) == ready' \in {ready, ready \ Bits(fFileDesc[c])}

(* The task runs, may take what its descriptor is ready for and asks for   *)
(* its next event.                                                         *)
RequestEvent(c) ==
    \E mask \in Masks[c] :
        /\ told[c] \/ c \in Unprompted
        /\ Moves(c, "idle", "registered")
        /\ told' = [told EXCEPT ![c] = FALSE]
        /\ failed' = failed \ {c}
        /\ fEventReq' = [fEventReq EXCEPT ![c] = mask]
        /\ MayTake(c)
        /\ UNCHANGED <<refVars, setVars, sReturned, sFDsToClose, sPipe, scanVars, asked,
                       openFDs, fFileDesc, fUniqueID, threadVars>>

(* The task of a listener runs and processes the event itself: it accepts  *)
(* and sleeps again, or accept fails and nothing more is asked for.        *)
AcceptInTask(c) ==
    /\ c \in Listeners /\ owner[c] = "idle" /\ told[c]
    /\ MayTake(c)
    /\ \/ UNCHANGED toldVars
       \/ told' = [told EXCEPT ![c] = FALSE] /\ failed' = failed \cup {c}
    /\ UNCHANGED <<refVars, setVars, sReturned, sFDsToClose, sPipe, scanVars, asked,
                   openFDs, contextVars, owner, threadVars>>

(* The context is cleaned up, perhaps as it is destroyed.                  *)
Cleanup(c) ==
    /\ Moves(c, "idle", "unregister")
    /\ UNCHANGED <<refVars, eventVars, contextVars, toldVars, threadVars>>

Forget(c) ==
    /\ fFileDesc' = [fFileDesc EXCEPT ![c] = NULL]
    /\ fUniqueID' = [fUniqueID EXCEPT ![c] = 0]
    /\ told' = [told EXCEPT ![c] = FALSE]
    /\ failed' = failed \ {c}
    /\ fEventReq' = [fEventReq EXCEPT ![c] = {}]

(* A context that never asked for an event closes its descriptor itself.   *)
CleanupUnused(c) ==
    /\ Moves(c, "open", "none")
    /\ openFDs' = openFDs \ {fFileDesc[c]}
    /\ ready' = ready \ Bits(fFileDesc[c])
    /\ Forget(c)
    /\ UNCHANGED <<refVars, setVars, sReturned, sFDsToClose, sPipe, scanVars, asked,
                   threadVars>>

(* Until nobody uses the context.                                          *)
UnRegisterContext(c) ==
    /\ owner[c] = "unregister"
    /\ UnRegister(c)
    /\ owner' = [owner EXCEPT ![c] = IF Unused(c) THEN "removeevent" ELSE @]
    /\ UNCHANGED <<eventVars, contextVars, toldVars, threadVars>>

RemoveContextEvent(c) ==
    /\ Moves(c, "removeevent", "removed")
    /\ RemoveEvent(fFileDesc[c])
    /\ UNCHANGED <<refVars, sPipe, scanVars, asked, kernelVars, contextVars, toldVars,
                   threadVars>>

(* Cleanup returns.                                                        *)
WakeForRemoval(c) ==
    /\ Moves(c, "removed", "none")
    /\ WakeSelect
    /\ Forget(c)
    /\ UNCHANGED <<refVars, setVars, sReturned, sFDsToClose, scanVars, asked, kernelVars,
                   threadVars>>

-----------------------------------------------------------------------------
(* EventThread::Entry.                                                     *)

Goes(from, to) == at = from /\ at' = to /\ UNCHANGED <<theCurrentEvent, ref>>

ThreadOnly == UNCHANGED <<refVars, contextVars, toldVars, owner>>

(* select_waitevent while there is something to hand out.                  *)
WaitEvent(dir) ==
    /\ at = "waitevent"
    /\ MoreToScan
    /\ sInReadSet = (dir = "read")
    /\ \/ \E fd \in Found(dir) :
            /\ ConstructEvent(fd, dir)
            /\ theCurrentEvent' = sCookieArray[fd]
            /\ at' = IF sCookieArray[fd] = NoCookie THEN "waitevent" ELSE "resolve"
            /\ UNCHANGED ref
       \/ /\ Found(dir) = {}
          /\ IF dir = "read"
             THEN StartWriteSet /\ Goes("waitevent", "waitevent")
             ELSE ScanDone /\ Goes("waitevent", "waitevent")
    /\ ThreadOnly

(* ... and once there is not.                                              *)
PrepareSelect == ~MoreToScan /\ CopySets /\ Goes("waitevent", "select") /\ ThreadOnly

EnterSelect == CallSelect /\ Goes("select", "selecting") /\ ThreadOnly

LeaveSelect ==
    /\ SelectReturns
    /\ Goes("selecting", IF sPipe THEN "drain" ELSE "waitevent")
    /\ ThreadOnly

RepeatSelect == SelectAgain /\ Goes("selecting", "waitevent") /\ ThreadOnly

DrainData == DrainPipe /\ Goes("drain", "close") /\ ThreadOnly

CloseRemoved == CloseFDs /\ Goes("close", "waitevent") /\ ThreadOnly

ResolveEvent ==
    /\ at = "resolve"
    /\ Resolve(theCurrentEvent)
    /\ ref' = fTable[theCurrentEvent]
    /\ at' = IF fTable[theCurrentEvent] = NULL THEN "waitevent" ELSE "process"
    /\ theCurrentEvent' = NoCookie
    /\ UNCHANGED <<eventVars, contextVars, toldVars, owner>>

(* The task of a context is signalled.                                     *)
ProcessEvent ==
    /\ ref \notin Listeners
    /\ Goes("process", "release")
    /\ told' = [told EXCEPT ![ref] = TRUE]
    /\ UNCHANGED <<refVars, eventVars, contextVars, failed, owner>>

(* A listener accepts, which may take what there is.                       *)
AcceptCall ==
    /\ ref \in Listeners
    /\ MayTake(ref)
    /\ UNCHANGED <<refVars, setVars, sReturned, sFDsToClose, sPipe, scanVars, asked,
                   openFDs, contextVars, owner>>

(* It asks for its next event, at once ...                                 *)
Accept ==
    /\ AcceptCall /\ Goes("process", "modwatch")
    /\ failed' = failed \ {ref} /\ UNCHANGED told

(* ... or, with many connections, when its task has slept a second ...     *)
AcceptAndSleep ==
    /\ AcceptCall /\ Goes("process", "release")
    /\ told' = [told EXCEPT ![ref] = TRUE] /\ UNCHANGED failed

(* ... or not: accept fails, and only the task of the session that would   *)
(* have begun is told.                                                     *)
AcceptFails ==
    /\ AcceptCall /\ Goes("process", "release")
    /\ failed' = failed \cup {ref} /\ UNCHANGED told

ListenerModWatch ==
    /\ Goes("modwatch", "wake")
    /\ ModWatch(fFileDesc[ref], fEventReq[ref], fUniqueID[ref])
    /\ UNCHANGED <<sReturned, sFDsToClose, sPipe, scanVars, asked, kernelVars>>
    /\ ThreadOnly

ListenerWake ==
    /\ Goes("wake", "release")
    /\ WakeSelect
    /\ UNCHANGED <<setVars, sReturned, sFDsToClose, scanVars, asked, kernelVars>>
    /\ ThreadOnly

ReleaseRef ==
    /\ at = "release"
    /\ Release(ref)
    /\ ref' = NULL
    /\ at' = "waitevent"
    /\ UNCHANGED <<eventVars, contextVars, toldVars, owner, theCurrentEvent>>

-----------------------------------------------------------------------------
(* A descriptor becomes ready.                                             *)
BecomeReady ==
    \E c \in Refs, dir \in Dirs : LET fd == fFileDesc[c] IN
        /\ fd \in openFDs /\ dir \in UNION Masks[c]
        /\ <<fd, dir>> \notin ready
        /\ ready' = ready \cup {<<fd, dir>>}
        /\ UNCHANGED <<refVars, setVars, sReturned, sFDsToClose, sPipe, scanVars, asked,
                       openFDs, contextVars, toldVars, owner, threadVars>>

RemoveContext(c) == Unused(c) /\ UnRegisterContext(c)

(* What the owner must go on with once it has begun.                       *)
OwnerGoesOn(c) ==
    \/ ModWatchContext(c) \/ WakeForContext(c)
    \/ UnRegisterContext(c) \/ RemoveContextEvent(c) \/ WakeForRemoval(c)

OwnerStep(c) ==
    \/ Open(c) \/ RequestFirstEvent(c) \/ RequestEvent(c) \/ AcceptInTask(c)
    \/ Cleanup(c) \/ CleanupUnused(c)
    \/ OwnerGoesOn(c)

ThreadStep ==
    \/ \E dir \in Dirs : WaitEvent(dir)
    \/ PrepareSelect \/ EnterSelect \/ LeaveSelect
    \/ DrainData \/ CloseRemoved
    \/ ResolveEvent \/ ProcessEvent \/ Accept \/ AcceptAndSleep \/ AcceptFails
    \/ ListenerModWatch \/ ListenerWake
    \/ ReleaseRef

Next ==
    \/ \E c \in Refs : OwnerStep(c)
    \/ ThreadStep \/ RepeatSelect
    \/ BecomeReady

Spec == Init /\ [][Next]_vars

(* Threads run; a select that has something returns it now and then,       *)
(* however often signals interrupt it, and nothing relies on its timeout;  *)
(* the owner of a listener, which the event thread may take up again and   *)
(* again, some time gets the mutex of the table in UnRegister while the    *)
(* listener is free, as it is all through each select.                     *)
FairSpec ==
    /\ Spec
    /\ WF_vars(ThreadStep) /\ SF_vars(LeaveSelect)
    /\ \A c \in Refs : WF_vars(OwnerGoesOn(c))
    /\ \A c \in Listeners : SF_vars(RemoveContext(c))

-----------------------------------------------------------------------------
(* The event thread has an event for c and has not told anyone yet.        *)
InFlight(c) ==
    \/ at = "resolve" /\ fTable[theCurrentEvent] = c
    \/ ref = c /\ at \in {"process", "modwatch"}

Armed(c) ==
    /\ {fFileDesc[c]} \X fEventReq[c] \subseteq sSet
    /\ sCookieArray[fFileDesc[c]] = fUniqueID[c]
    /\ fFileDesc[c] <= sMaxFDPos

(* A context that asked for an event is watched for it until the event is  *)
(* on its way to it or its task is told: no removal or event of another    *)
(* makes it deaf, and a listener nothing but a failure of its own accept.  *)
AskedIsWatched ==
    \A c \in Refs :
        owner[c] = "idle" => Armed(c) \/ InFlight(c) \/ told[c] \/ c \in failed

(* A select that does not know of a context that is watched has been woken,*)
(* or is about to be.                                                      *)
SelectIsWoken ==
    \A c \in Refs :
        /\ owner[c] = "idle" /\ Armed(c)
        /\ at = "selecting" /\ ~({fFileDesc[c]} \X fEventReq[c] \subseteq asked)
        => sPipe

(* What a context asks for is watched, and by the select in progress too.  *)
AskedIsSelected == TypeOK /\ AskedIsWatched /\ SelectIsWoken

(* The event thread never uses a context after its Cleanup went past       *)
(* UnRegister, which is when its memory may be gone.                       *)
NoStaleContext ==
    ref # NULL => /\ owner[ref] \in {"registered", "modwatched", "idle", "unregister"}
                  /\ fRefCount[ref] = 1

(* "you MUST NOT close the fd before removing the fd from the select mask":*)
(* select is never asked for a descriptor that is closed, and what waits   *)
(* to be closed is open and is not watched, nor any context's.             *)
ClosedLast ==
    /\ at = "selecting" => AskedOpen
    /\ sFDsToClose \subseteq openFDs
    /\ \A fd \in sFDsToClose :
          /\ sSet \cap Bits(fd) = {}
          /\ \A c \in Refs : fFileDesc[c] = fd => owner[c] = "removed"

(* There is an event for c, and nobody has it.                             *)
Deaf(c) ==
    /\ owner[c] = "idle" /\ ~told[c] /\ ~InFlight(c)
    /\ \E dir \in fEventReq[c] : <<fFileDesc[c], dir>> \in ready

(* No context waits for ever for an event that is there, but for listeners *)
(* whose accept failed.                                                    *)
NobodyStaysDeaf == \A c \in Refs : []<>(Deaf(c) => c \in failed)

(* Every Cleanup returns, and what it removed is closed in the end.        *)
CleanupCompletes ==
    /\ \A c \in Refs : []<>(owner[c] \notin {"unregister", "removeevent", "removed"})
    /\ []<>(sFDsToClose = {})

=============================================================================
