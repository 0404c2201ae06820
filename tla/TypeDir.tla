------------------------------ MODULE TypeDir ------------------------------
(***************************************************************************)
(* FS_typedir (ow_dir.c): the listing of a type directory (structure,      *)
(* statistics, system, settings).  The entries of a type are the keys of   *)
(* a binary search tree, Tree[type], walked with twalk.  twalk passes no   *)
(* user data to its action, so FS_typedir stores the caller's callback,    *)
(* its argument and its directory in the global typedir_action_struct,     *)
(* and Typediraction reads them from there on every visit.  Typedirmutex   *)
(* is held from before the globals are set until the walk has ended.      *)
(*                                                                         *)
(* Concurrent callers are threads of the server.  The callback and its     *)
(* argument are abstracted to the caller they belong to: an entry goes to  *)
(* the caller named by the global, tagged with the type of the directory   *)
(* named by the global.                                                   *)
(***************************************************************************)
EXTENDS Integers, Sequences, SequencesExt

CONSTANTS
    Callers,    \* concurrent FS_typedir calls
    Types,      \* type directories
    TreeKeys,   \* TreeKeys[t]: the device names in Tree[t], as integers
    None        \* no owner of the mutex, no caller in the global

(* The binary search trees over a set of keys: <<>> or <<left, key, right>> *)
RECURSIVE Trees(_)
Trees(S) ==
    IF S = {} THEN {<<>>}
    ELSE UNION {{<<l, k, r>> : l \in Trees({x \in S : x < k}),
                               r \in Trees({x \in S : x > k})} : k \in S}

(* twalk: a node without children is visited once as leaf; any other node *)
(* as preorder, then its left subtree, postorder, its right subtree,       *)
(* endorder.                                                               *)
RECURSIVE Visits(_)
Visits(t) ==
    IF t = <<>> THEN <<>>
    ELSE IF t[1] = <<>> /\ t[3] = <<>> THEN <<[key |-> t[2], which |-> "leaf"]>>
    ELSE <<[key |-> t[2], which |-> "preorder"]>> \o Visits(t[1])
         \o <<[key |-> t[2], which |-> "postorder"]>> \o Visits(t[3])
         \o <<[key |-> t[2], which |-> "endorder"]>>

(* Typediraction calls the callback on leaf and postorder visits only *)
Typediraction(v) == v.which \in {"leaf", "postorder"}

VARIABLES
    tree,     \* tree[t]: the shape of Tree[t]
    type,     \* type[c]: the type directory caller c lists
    pc,       \* pc[c]: "lock", "set", "walk", "done"
    i,        \* i[c]: visits of c's twalk made so far
    lock,     \* the owner of Typedirmutex, or None
    global,   \* typedir_action_struct: [v: whose callback and argument, pn: whose directory]
    out       \* out[c]: the entries c's callback has received

vars == <<tree, type, pc, i, lock, global, out>>

Init ==
    /\ tree \in [Types -> UNION {Trees(TreeKeys[t]) : t \in Types}]
    /\ \A t \in Types : tree[t] \in Trees(TreeKeys[t])
    /\ type \in [Callers -> Types]
    /\ pc = [c \in Callers |-> "lock"]
    /\ i = [c \in Callers |-> 0]
    /\ lock = None
    /\ global = [v |-> None, pn |-> None]
    /\ out = [c \in Callers |-> <<>>]

(* Mutant: FS_typedir without TYPEDIRMUTEXLOCK *)
LockIgnored(c) ==
    /\ pc[c] = "lock"
    /\ pc' = [pc EXCEPT ![c] = "set"]
    /\ UNCHANGED <<tree, type, i, lock, global, out>>

(* TYPEDIRMUTEXLOCK, after the shallow copy of the directory *)
Lock(c) ==
    /\ pc[c] = "lock" /\ lock = None
    /\ lock' = c
    /\ pc' = [pc EXCEPT ![c] = "set"]
    /\ UNCHANGED <<tree, type, i, global, out>>

(* The three assignments to typedir_action_struct *)
SetGlobals(c) ==
    /\ pc[c] = "set"
    /\ global' = [v |-> c, pn |-> c]
    /\ pc' = [pc EXCEPT ![c] = "walk"]
    /\ UNCHANGED <<tree, type, i, lock, out>>

(* One visit of c's twalk: Typediraction sets the global directory's     *)
(* selected_device to the node's key and calls the global callback with  *)
(* the global argument and directory.                                    *)
Walk(c) ==
    LET vs == Visits(tree[type[c]])
    IN /\ pc[c] = "walk" /\ i[c] < Len(vs)
       /\ i' = [i EXCEPT ![c] = @ + 1]
       /\ out' = IF Typediraction(vs[i[c] + 1])
                 THEN [out EXCEPT ![global.v] = Append(@, <<type[global.pn], vs[i[c] + 1].key>>)]
                 ELSE out
       /\ UNCHANGED <<tree, type, pc, lock, global>>

(* Mutant: the return path without TYPEDIRMUTEXUNLOCK *)
UnlockMissing(c) ==
    /\ pc[c] = "walk" /\ i[c] = Len(Visits(tree[type[c]]))
    /\ pc' = [pc EXCEPT ![c] = "done"]
    /\ UNCHANGED <<tree, type, i, lock, global, out>>

(* twalk has returned: TYPEDIRMUTEXUNLOCK, return 0 *)
Unlock(c) ==
    /\ pc[c] = "walk" /\ i[c] = Len(Visits(tree[type[c]]))
    /\ lock' = None
    /\ pc' = [pc EXCEPT ![c] = "done"]
    /\ UNCHANGED <<tree, type, i, global, out>>

Step(c) == Lock(c) \/ SetGlobals(c) \/ Walk(c) \/ Unlock(c)

Next == \E c \in Callers : Step(c)

(* Each call runs on its own thread, which the scheduler keeps running *)
Spec == Init /\ [][Next]_vars /\ \A c \in Callers : WF_vars(Step(c))

-----------------------------------------------------------------------------
(* Every finished type listing delivered to its own callback exactly the  *)
(* devices of its own type, each once, in ascending order -- whatever the *)
(* tree's shape and however the calls interleave on the global struct.    *)
TypeListingFaithful ==
    \A c \in Callers :
        pc[c] = "done" =>
            out[c] = [j \in 1 .. Cardinality(TreeKeys[type[c]]) |->
                        <<type[c], SetToSortSeq(TreeKeys[type[c]], <)[j]>>]

(* Every type listing returns: no caller waits for Typedirmutex forever.  *)
TypeDirsComplete == <>(\A c \in Callers : pc[c] = "done")
=============================================================================
