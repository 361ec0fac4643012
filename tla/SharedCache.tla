---------------------------- MODULE SharedCache -----------------------------
(***************************************************************************)
(* What users of a shared cache may rely on: a key stands for at most one  *)
(* entry, an entry is destroyed exactly when it stands for nothing and     *)
(* nobody holds it, and the cache by itself lets go only of entries that   *)
(* nobody holds.                                                           *)
(***************************************************************************)
EXTENDS Naturals

CONSTANTS Users, Entries, Keys, NULL

VARIABLES
    content,    \* the entry each key stands for
    key,        \* the key an entry was made for
    held,       \* what each user holds
    fresh,      \* what each user made and did not put into the cache yet
    alive       \* the entries that exist

vars == <<content, key, held, fresh, alive>>

Held(e) == \E u \in Users : e \in held[u]

Init ==
    /\ content = [k \in Keys |-> NULL]
    /\ key = [e \in Entries |-> NULL]
    /\ held = [u \in Users |-> {}]
    /\ fresh = [u \in Users |-> NULL]
    /\ alive = {}

Used == ({content[k] : k \in Keys} \cup {fresh[u] : u \in Users}
            \cup UNION {held[u] : u \in Users}) \ {NULL}

Make(u) ==
    \E e \in Entries \ alive, k \in Keys :
        /\ fresh[u] = NULL
        /\ fresh' = [fresh EXCEPT ![u] = e]
        /\ key'[e] = k
        /\ UNCHANGED <<content, held>>

(* Keys whose entries nobody holds may lose them to make room.             *)
MakesRoom(K) ==
    \A k \in K : \/ content'[k] = content[k]
                 \/ content'[k] = NULL /\ ~Held(content[k])

Put(u) ==
    /\ fresh[u] # NULL
    /\ MakesRoom(Keys \ {key[fresh[u]]})
    /\ content'[key[fresh[u]]] = fresh[u]
    /\ held' = [held EXCEPT ![u] = @ \cup {fresh[u]}]
    /\ fresh' = [fresh EXCEPT ![u] = NULL]

(* A put that fails, and the removal of what nobody holds.                 *)
Shrink == MakesRoom(Keys) /\ UNCHANGED <<held, fresh>>

Discard(u) ==
    /\ fresh' = [fresh EXCEPT ![u] = NULL]
    /\ UNCHANGED <<content, held>>

Get(u, k) ==
    /\ content[k] # NULL
    /\ held' = [held EXCEPT ![u] = @ \cup {content[k]}]
    /\ UNCHANGED <<content, fresh>>

Drop(u) ==
    \E e \in held[u] :
        /\ held' = [held EXCEPT ![u] = @ \ {e}]
        /\ UNCHANGED <<content, fresh>>

(* Keys stop standing for their entries, held or not.                      *)
Forget(K) ==
    /\ content' = [k \in Keys |-> IF k \in K THEN NULL ELSE content[k]]
    /\ UNCHANGED <<held, fresh>>

Next ==
    /\ \/ \E u \in Users :
             Make(u) \/ Put(u) \/ Discard(u) \/ Drop(u) \/ \E k \in Keys : Get(u, k)
       \/ Shrink
       \/ \E K \in SUBSET Keys : Forget(K)
    /\ content' \in [Keys -> Entries \cup {NULL}]
    /\ alive' = Used'
    /\ DOMAIN key' = Entries
    /\ \A e \in alive : key'[e] = IF e \in alive' THEN key[e] ELSE NULL
    /\ \A e \in Entries \ alive' : key'[e] = NULL

Spec == Init /\ [][Next]_vars

=============================================================================
