---------------------------- MODULE SelectEvents ----------------------------
(***************************************************************************)
(* The events of the framework on top of select (ev.cpp).  Any thread may  *)
(* change what is watched, in two steps: the change, under sMaxFDPosMutex, *)
(* and then a write to a pipe that ends the select in progress.  One       *)
(* thread selects, hands out what came back one descriptor at a time, and  *)
(* closes the descriptors that were removed.                               *)
(*                                                                         *)
(* The pipe is descriptor 0 here and always watched for reading.           *)
(***************************************************************************)
EXTENDS Naturals, FiniteSets

CONSTANT FDs    \* the descriptors a socket may have

PipeFD == 0
NoCookie == 0
Dirs == {"read", "write"}

ASSUME FDAssumption ==
    /\ FDs \subseteq Nat \ {PipeFD}
    /\ IsFiniteSet(FDs)

VARIABLES
    sSet,               \* sReadSet and sWriteSet, as pairs of both
    sReturned,          \* sReturnedReadSet and sReturnedWriteSet
    sCookieArray,
    sFDsToClose,
    sMaxFDPos,
    sPipe,              \* whether the pipe has data
    sCurrentFDPos, sInReadSet, sNumFDsBack, sNumFDsProcessed,
    asked,              \* what the kernel was asked to select from
    openFDs, ready      \* the kernel's: open descriptors, and what they are
                        \* ready for

setVars == <<sSet, sCookieArray, sMaxFDPos>>
scanVars == <<sCurrentFDPos, sInReadSet, sNumFDsBack, sNumFDsProcessed>>
kernelVars == <<openFDs, ready>>
eventVars == <<setVars, sReturned, sFDsToClose, sPipe, scanVars, asked, kernelVars>>

Bits(fd) == {fd} \X Dirs

SelectTypeOK ==
    /\ sSet \subseteq FDs \X Dirs
    /\ sReturned \subseteq FDs \X Dirs
    /\ sCookieArray \in [FDs -> Nat]
    /\ sFDsToClose \subseteq FDs
    /\ sMaxFDPos \in FDs \cup {PipeFD}
    /\ sPipe \in BOOLEAN
    /\ sCurrentFDPos \in Nat
    /\ sInReadSet \in BOOLEAN
    /\ sNumFDsBack \in Nat
    /\ sNumFDsProcessed \in Nat
    /\ asked \subseteq FDs \X Dirs
    /\ openFDs \subseteq FDs
    /\ ready \subseteq FDs \X Dirs

SelectInit ==
    /\ sSet = {} /\ sReturned = {}
    /\ sCookieArray = [fd \in FDs |-> NoCookie]
    /\ sFDsToClose = {}
    /\ sMaxFDPos = PipeFD
    /\ sPipe = FALSE
    /\ sCurrentFDPos = 0 /\ sInReadSet = TRUE
    /\ sNumFDsBack = 0 /\ sNumFDsProcessed = 0
    /\ asked = {}
    /\ openFDs = {} /\ ready = {}

-----------------------------------------------------------------------------
(* Changes by any thread, under the mutex.                                 *)

(* Fault: the highest descriptor is not kept.                              *)
ModWatch_MaxKept(fd, mask, cookie) ==
    /\ sSet' = (sSet \ Bits(fd)) \cup ({fd} \X mask)
    /\ sCookieArray' = [sCookieArray EXCEPT ![fd] = cookie]
    /\ UNCHANGED sMaxFDPos

(* select_modwatch and select_watchevent: mask is all that fd is watched   *)
(* for from now on.                                                        *)
ModWatch(fd, mask, cookie) ==
    /\ sSet' = (sSet \ Bits(fd)) \cup ({fd} \X mask)
    /\ sCookieArray' = [sCookieArray EXCEPT ![fd] = cookie]
    /\ sMaxFDPos' = IF fd > sMaxFDPos THEN fd ELSE sMaxFDPos

(* The highest descriptor once fd is out of the sets.                      *)
Lowered(fd) ==
    IF fd # sMaxFDPos THEN sMaxFDPos
    ELSE LET watched == {PipeFD} \cup {b[1] : b \in sSet \ Bits(fd)} IN
         CHOOSE m \in watched : \A f \in watched : f <= m

(* Fault: the descriptor stays in the sets until it is closed.             *)
RemoveEvent_Late(fd) ==
    /\ sCookieArray' = [sCookieArray EXCEPT ![fd] = NoCookie]
    /\ sFDsToClose' = sFDsToClose \cup {fd}
    /\ UNCHANGED <<sSet, sReturned, sMaxFDPos>>

(* select_removeevent.                                                     *)
RemoveEvent(fd) ==
    /\ sSet' = sSet \ Bits(fd)
    /\ sReturned' = sReturned \ Bits(fd)
    /\ sCookieArray' = [sCookieArray EXCEPT ![fd] = NoCookie]
    /\ sMaxFDPos' = Lowered(fd)
    /\ sFDsToClose' = sFDsToClose \cup {fd}

(* Fault: nothing is written.                                              *)
WakeSelect_Never == UNCHANGED sPipe

(* The write to the pipe.                                                  *)
WakeSelect == sPipe' = TRUE

-----------------------------------------------------------------------------
(* select_waitevent, by the event thread.                                  *)

MoreToScan == sNumFDsProcessed < sNumFDsBack

(* The descriptors that a pass over one direction may stop at: the first   *)
(* look is at sCurrentFDPos, wherever sMaxFDPos is by then.                *)
Found(dir) ==
    {fd \in FDs : /\ <<fd, dir>> \in sReturned
                  /\ fd >= sCurrentFDPos
                  /\ fd <= sMaxFDPos \/ fd = sCurrentFDPos}

(* "don't want events on this fd until modwatch is called"                 *)
Disarm(fd) == sSet' = sSet \ Bits(fd)

(* constructeventreq for the descriptor found first.                       *)
ConstructEvent(fd, dir) ==
    /\ fd \in Found(dir) /\ \A f \in Found(dir) : fd <= f
    /\ sReturned' = sReturned \ {<<fd, dir>>}
    /\ sCurrentFDPos' = fd + 1
    /\ sNumFDsProcessed' = sNumFDsProcessed + 1
    /\ Disarm(fd)
    /\ UNCHANGED <<sInReadSet, sNumFDsBack, sCookieArray, sMaxFDPos, sFDsToClose,
                   sPipe, asked, kernelVars>>

(* The pass over the read set is over.                                     *)
StartWriteSet ==
    /\ sInReadSet' = FALSE
    /\ sCurrentFDPos' = 0
    /\ UNCHANGED <<sNumFDsBack, sNumFDsProcessed, setVars, sReturned, sFDsToClose,
                   sPipe, asked, kernelVars>>

(* All that came back is handed out, or what is left of it was removed.    *)
ScanDone ==
    /\ sNumFDsProcessed' = 0 /\ sNumFDsBack' = 0
    /\ sCurrentFDPos' = 0 /\ sInReadSet' = TRUE
    /\ UNCHANGED <<setVars, sReturned, sFDsToClose, sPipe, asked, kernelVars>>

(* Nothing is left, and the sets are copied for select under the mutex.    *)
CopySets ==
    /\ sNumFDsProcessed' = 0 /\ sNumFDsBack' = 0
    /\ sCurrentFDPos' = 0 /\ sInReadSet' = TRUE
    /\ sReturned' = sSet
    /\ UNCHANGED <<setVars, sFDsToClose, sPipe, asked, kernelVars>>

(* select is entered, without the mutex.                                   *)
CallSelect ==
    /\ asked' = {b \in sReturned : b[1] <= sMaxFDPos}
    /\ UNCHANGED <<setVars, sReturned, sFDsToClose, sPipe, scanVars, kernelVars>>

AskedOpen == \A b \in asked : b[1] \in openFDs

(* select has something, pipe or not.                                      *)
SelectReturns ==
    /\ AskedOpen
    /\ sPipe \/ asked \cap ready # {}
    /\ sReturned' = asked \cap ready
    /\ sNumFDsBack' = Cardinality(asked \cap ready) + (IF sPipe THEN 1 ELSE 0)
    /\ asked' = {}
    /\ UNCHANGED <<setVars, sFDsToClose, sPipe, sCurrentFDPos, sInReadSet,
                   sNumFDsProcessed, kernelVars>>

(* It times out, is interrupted or, with EBADF, refuses, and is called     *)
(* again; what it leaves in the sets is not looked at.                     *)
SelectAgain ==
    /\ sReturned' = {}
    /\ asked' = {}
    /\ UNCHANGED <<setVars, sFDsToClose, sPipe, scanVars, kernelVars>>

(* selecthasdata: all data is read from the pipe ...                       *)
DrainPipe ==
    /\ sPipe' = FALSE
    /\ sNumFDsBack' = sNumFDsBack - 1
    /\ UNCHANGED <<setVars, sReturned, sFDsToClose, sCurrentFDPos, sInReadSet,
                   sNumFDsProcessed, asked, kernelVars>>

(* ... and what was removed is closed, under the mutex.                    *)
CloseFDs ==
    /\ openFDs' = openFDs \ sFDsToClose
    /\ ready' = {b \in ready : b[1] \notin sFDsToClose}
    /\ sFDsToClose' = {}
    /\ UNCHANGED <<setVars, sReturned, sPipe, scanVars, asked>>

=============================================================================
