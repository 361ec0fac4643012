----------------------------- MODULE OSRefTable -----------------------------
(***************************************************************************)
(* The reference table of the framework (OSRef.cpp): a table of objects    *)
(* under their ids that counts who uses them.  Every call runs under the   *)
(* mutex of the table; UnRegister gives it up only to wait until the       *)
(* object is free.                                                         *)
(***************************************************************************)
EXTENDS Naturals

CONSTANTS Refs, Ids, NULL

ASSUME RefAssumption == NULL \notin Refs /\ NULL \notin Ids

VARIABLES
    fTable,     \* the object registered under each id
    fRefCount,  \* how many use each object
    fCond       \* what the UnRegister of each object does: "wait" on its
                \* condition, "woken" from it, or neither

refVars == <<fTable, fRefCount, fCond>>

RefTypeOK ==
    /\ fTable \in [Ids -> Refs \cup {NULL}]
    /\ fRefCount \in [Refs -> Nat]
    /\ fCond \in [Refs -> {"none", "wait", "woken"}]

RefInit ==
    /\ fTable = [id \in Ids |-> NULL]
    /\ fRefCount = [r \in Refs |-> 0]
    /\ fCond = [r \in Refs |-> "none"]

(* An id that is taken already is an error, which no caller looks at.      *)
Register(r, id) ==
    /\ fTable' = [fTable EXCEPT ![id] = IF @ = NULL THEN r ELSE @]
    /\ UNCHANGED <<fRefCount, fCond>>

(* Fault: the object found is not counted as used.                         *)
Resolve_Uncounted(id) == UNCHANGED refVars

(* fTable[id] is returned.                                                 *)
Resolve(id) ==
    /\ fRefCount' = IF fTable[id] = NULL THEN fRefCount
                    ELSE [fRefCount EXCEPT ![fTable[id]] = @ + 1]
    /\ UNCHANGED <<fTable, fCond>>

(* Fault: nobody is told that the object is free.                          *)
Release_Silent(r) ==
    /\ fRefCount' = [fRefCount EXCEPT ![r] = @ - 1]
    /\ UNCHANGED <<fTable, fCond>>

Release(r) ==
    /\ fRefCount' = [fRefCount EXCEPT ![r] = @ - 1]
    /\ fCond' = [fCond EXCEPT ![r] = IF @ = "wait" THEN "woken" ELSE @]
    /\ UNCHANGED fTable

Unused(r) == fRefCount[r] = 0

(* A pass of the loop of UnRegister.                                       *)
UnRegister(r) ==
    /\ fCond[r] # "wait"
    /\ IF Unused(r)
       THEN /\ fTable' = [id \in Ids |-> IF fTable[id] = r THEN NULL ELSE fTable[id]]
            /\ fCond' = [fCond EXCEPT ![r] = "none"]
       ELSE /\ fCond' = [fCond EXCEPT ![r] = "wait"]
            /\ UNCHANGED fTable
    /\ UNCHANGED fRefCount

=============================================================================
