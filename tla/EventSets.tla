----------------------------- MODULE EventSets ------------------------------
(***************************************************************************)
(* Sets of poll descriptors, the arrays of struct pollfd that st_poll      *)
(* passes to an event system: a sequence of records [fd, events].  A set   *)
(* of happenings is a set of pairs <<descriptor, event>>.                  *)
(***************************************************************************)
EXTENDS Integers, Sequences, FiniteSetsExt

CONSTANT Fds    \* descriptors

Events == {"IN", "OUT", "PRI"}              \* POLLIN, POLLOUT, POLLPRI
Unasked == {"ERR", "HUP", "NVAL"}           \* reported whether asked for or not

Entries == [fd : Fds, events : (SUBSET Events) \ {{}}]

AllEvents == Fds \X (Events \cup Unasked)

(* The events of a descriptor entry among those that happened.             *)
Hits(pd, happened) ==
    {e \in pd.events \cup Unasked : <<pd.fd, e>> \in happened}

(* The field revents of each entry.                                        *)
Revents(pds, happened) ==
    [i \in DOMAIN pds |-> Hits(pds[i], happened)]

Concerned(pds, happened) == \E i \in DOMAIN pds : Hits(pds[i], happened) # {}

Descriptors(pds) == {pds[i].fd : i \in DOMAIN pds}

Pairs(pds) == UNION {{pds[i].fd} \X pds[i].events : i \in DOMAIN pds}

(* How often event x[2] is asked for on descriptor x[1].                   *)
Times(pds, x) ==
    Cardinality({i \in DOMAIN pds : pds[i].fd = x[1] /\ x[2] \in pds[i].events})

(* How often the threads that wait with sets pds ask for it.               *)
TimesAsked(pds, x) ==
    LET times == [t \in DOMAIN pds |-> Times(pds[t], x)]
    IN  MapThenSumSet(LAMBDA t : times[t], DOMAIN pds)

=============================================================================
