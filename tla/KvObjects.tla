----------------------------- MODULE KvObjects -----------------------------
(***************************************************************************)
(* The KV objects the Gateways keep their certificates in: a flat table of *)
(* keys in the Controller's database that is read as a tree of             *)
(* '/'-separated components.  The reads find a subtree by comparing bytes, *)
(* so that a key is a sequence of bytes here, of an alphabet with what is  *)
(* next to '/' on either side: '.', '/', '0' and a letter.                 *)
(*                                                                         *)
(* Every operation is a statement of its own; a stat is two of them, with  *)
(* the operations of other Gateways in between.                            *)
(***************************************************************************)
EXTENDS Integers, Sequences, FiniteSets, FiniteSetsExt, SequencesExt

CONSTANTS Keys,      \* the keys that are written: sequences of bytes
          Paths,     \* what is asked for
          Clients, MaxTime, Nothing

Slash == 2
Zero == 3

VARIABLES objects,   \* kv_objects: key |-> when it was modified
          clock,
          stats      \* of each client: the stat that is under way, or Nothing

vars == <<objects, clock, stats>>

\* SQLite's BINARY collation.
Less(k, l) ==
    \/ IsStrictPrefix(k, l)
    \/ \E i \in 1..Min({Len(k), Len(l)}) : SubSeq(k, 1, i - 1) = SubSeq(l, 1, i - 1) /\ k[i] < l[i]

\* Mutant of Begins: the key begins with the path.
BeginsAny(key, path) == IsStrictPrefix(path, key)

\* The WHERE clause of stat and delete: the key begins with the path and a slash.
Begins(key, path) == SubSeq(key, 1, Min({Len(key), Len(path) + 1})) = Append(path, Slash)

\* Mutant of keys_at: everything that begins with the path.
keys_atPrefix(path) ==
    IF path = <<>> THEN DOMAIN objects
    ELSE {k \in DOMAIN objects : k = path \/ (Less(path, k) /\ Less(k, [path EXCEPT ![Len(path)] = @ + 1]))}

\* The range from "path/" up to "path0".
keys_at(path) ==
    IF path = <<>> THEN DOMAIN objects
    ELSE {k \in DOMAIN objects : k = path \/ (~ Less(k, Append(path, Slash)) /\ Less(k, Append(path, Zero)))}

is_component_descendant(key, path) == path = <<>> \/ IsPrefix(Append(path, Slash), key)

\* Where the components of a key end, beyond the path.
Ends(key, path) ==
    {i \in (Len(path) + 1)..Len(key) : (i = Len(key) \/ key[i + 1] = Slash) /\ key[i] # Slash}

\* The entries at a path, or below it, and Nothing when there is no such path.
list(path, recursive) ==
    LET below == {k \in keys_at(path) : is_component_descendant(k, path)}
    IN  IF keys_at(path) = {} THEN Nothing
        ELSE UNION {{SubSeq(k, 1, i) : i \in IF recursive THEN Ends(k, path) ELSE {Min(Ends(k, path))}} : k \in below}

Newest(keys) == IF keys = {} THEN Nothing ELSE [modified |-> Max({objects[k] : k \in keys}), is_value |-> FALSE]

(***************************************************************************)
(* Operations.                                                             *)
(***************************************************************************)
put(key) ==
    /\ clock < MaxTime /\ clock' = clock + 1
    /\ objects' = [k \in DOMAIN objects \union {key} |-> IF k = key THEN clock' ELSE objects[k]]
    /\ UNCHANGED stats

\* Mutant of Deleted: what begins with the path.
DeletedPrefix(key, recursive) ==
    {k \in DOMAIN objects : k = key \/ (recursive /\ IsPrefix(key, k))}

\* Mutant of Deleted: the objects one component below the key, and no deeper ones.
DeletedChildren(key, recursive) ==
    {k \in DOMAIN objects : k = key \/ (recursive /\ Begins(k, key) /\ Cardinality(Ends(k, key)) = 1)}

Deleted(key, recursive) ==
    {k \in DOMAIN objects : k = key \/ (recursive /\ Begins(k, key))}

delete(key, recursive) ==
    /\ objects' = [k \in DOMAIN objects \ Deleted(key, recursive) |-> objects[k]]
    /\ UNCHANGED <<clock, stats>>

\* stat, first statement: a value is its own answer.
stat_value(c, path) ==
    /\ stats[c] = Nothing
    /\ stats' = [stats EXCEPT ![c] =
                   IF path # <<>> /\ path \in DOMAIN objects
                   THEN [path |-> path, answer |-> [modified |-> objects[path], is_value |-> TRUE], over |-> TRUE]
                   ELSE [path |-> path, answer |-> Nothing, over |-> FALSE]]
    /\ UNCHANGED <<objects, clock>>

\* Second statement: the newest below it.
stat_directory(c) ==
    /\ stats[c] # Nothing /\ ~ stats[c].over
    /\ stats' = [stats EXCEPT ![c].over = TRUE,
                   ![c].answer = Newest({k \in DOMAIN objects : stats[c].path = <<>> \/ Begins(k, stats[c].path)})]
    /\ UNCHANGED <<objects, clock>>

Receive(c) ==
    /\ stats[c] # Nothing /\ stats[c].over
    /\ stats' = [stats EXCEPT ![c] = Nothing] /\ UNCHANGED <<objects, clock>>

Init == objects = <<>> /\ clock = 0 /\ stats = [c \in Clients |-> Nothing]

Next == \/ \E k \in Keys : put(k) \/ delete(k, TRUE) \/ delete(k, FALSE)
        \/ \E c \in Clients : (\E p \in Paths : stat_value(c, p)) \/ stat_directory(c) \/ Receive(c)

Spec == Init /\ [][Next]_vars

(***************************************************************************)
(* Properties.                                                             *)
(***************************************************************************)
\* What a tree of components has at and below a path.
Components(key) == {SubSeq(key, 1, i) : i \in Ends(key, <<>>)}
Below(n, p) == n # p /\ (p = <<>> \/ p \in Components(n))
Tree == UNION {Components(k) : k \in DOMAIN objects}

\* A listing is the tree's: the nodes below the path, or those one component
\* below it, and no listing exactly when the tree has no such node, however
\* the bytes of other keys compare with the path's (KvRepository::list,
\* keys_at).
ListsTree ==
    \A p \in Paths :
        LET below == {n \in Tree : Below(n, p)}
        IN  /\ (list(p, TRUE) = Nothing) = (IF p = <<>> THEN Tree = {} ELSE p \notin Tree)
            /\ list(p, TRUE) # Nothing =>
                 /\ list(p, TRUE) = below
                 /\ list(p, FALSE) = {n \in below : Components(n) \ Components(p) = {n}}

\* A recursive delete takes away exactly the key's subtree: nothing of it stays,
\* at whatever depth, and other keys that share its first bytes do.  Any other
\* delete takes away the key alone and leaves what is below it
\* (KvRepository::delete).
DeletesSubtree ==
    \A d \in Keys :
        /\ delete(d, TRUE) => DOMAIN objects' = {k \in DOMAIN objects : d \notin Components(k)}
        /\ delete(d, FALSE) => DOMAIN objects' = DOMAIN objects \ {d}

\* A stat that finds no value says that there is a directory exactly when the
\* tree has something below the path at that moment, and dates it by the
\* newest object there: two Gateways that ask at the same time for keys with
\* the same first bytes are not told of each other's (KvRepository::stat).
StatsTree ==
    \A c \in Clients :
        stats[c] # Nothing /\ stats'[c] # Nothing /\ stats[c] # stats'[c] =>
            LET below == {k \in DOMAIN objects : Below(k, stats[c].path)}
            IN  stats'[c].answer = IF below = {} THEN Nothing
                                   ELSE [modified |-> Max({objects[k] : k \in below}), is_value |-> FALSE]

\* At every step the flat table is the tree that list, delete and stat say it is.
TreeKept == [][(objects' # objects => ListsTree' /\ DeletesSubtree) /\ StatsTree]_vars
=============================================================================
