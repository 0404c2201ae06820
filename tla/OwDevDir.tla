------------------------------ MODULE OwDevDir ------------------------------
(***************************************************************************)
(* FS_devdir (ow_dir.c): the listing of one device directory, from the    *)
(* device's filetype array.  A filetype is abstracted to what the loop     *)
(* reads: the directory its name lies in ("dir", None for a name without  *)
(* '/'), the group it opens when it is itself a sub-directory entry       *)
(* ("grp"), its aggregate size ("ag", 0 for NON_AGGREGATE) and whether its *)
(* format is ft_bitfield.  An entry handed to dirfunc is                   *)
(* <<filetype index, extension>>.                                          *)
(***************************************************************************)
EXTENDS Integers, Sequences, FiniteSets

CONSTANTS
    Groups,     \* names of sub-directories of a device ("pages", ...)
    MaxAg,      \* largest aggregate size enumerated
    MaxFt,      \* largest filetype array enumerated
    None

Filetype == [dir : Groups \cup {None}, grp : Groups \cup {None},
             ag : 0 .. MaxAg, bitfield : BOOLEAN]

(* Mutant: the extension loop runs to elements inclusive (<= for <) *)
FtEntriesToK(T, i) ==
    IF T[i].ag > 0
    THEN LET first == IF T[i].bitfield THEN -2 ELSE -1
         IN [j \in 1 .. T[i].ag - first + 1 |-> <<i, first + j - 1>>]
    ELSE <<<<i, 0>>>>

(* The extensions of one filetype: an aggregate from -2 (ft_bitfield) or  *)
(* -1 up to elements-1, a scalar once with extension 0.                   *)
FtEntries(T, i) ==
    IF T[i].ag > 0
    THEN LET first == IF T[i].bitfield THEN -2 ELSE -1
         IN [j \in 1 .. T[i].ag - first |-> <<i, first + j - 1>>]
    ELSE <<<<i, 0>>>>

(* Mutant: the main directory does not skip names inside a sub-directory *)
RECURSIVE ListFromNoSkip(_, _, _)
ListFromNoSkip(T, g, i) ==
    CASE i > Len(T) -> <<>>
      [] g # None /\ T[i].dir # g -> <<>>
      [] OTHER -> FtEntries(T, i) \o ListFromNoSkip(T, g, i + 1)

(* The filetype loop from index i: inside sub-directory g it stops at the *)
(* first name without the "g/" prefix (strncmp ... break); in the main    *)
(* directory it skips names containing '/' (strchr ... continue).         *)
RECURSIVE ListFrom(_, _, _)
ListFrom(T, g, i) ==
    CASE i > Len(T) -> <<>>
      [] g # None /\ T[i].dir # g -> <<>>
      [] g = None /\ T[i].dir # None -> ListFrom(T, g, i + 1)
      [] OTHER -> FtEntries(T, i) \o ListFrom(T, g, i + 1)

(* FS_devdir: sub is 0 for the device directory, else the index of the    *)
(* sub-directory filetype (pn->subdir); the loop starts just after it.    *)
DevDir(T, sub) ==
    IF sub = 0 THEN ListFrom(T, None, 1) ELSE ListFrom(T, T[sub].grp, sub + 1)

-----------------------------------------------------------------------------
(* The filetype arrays a device can have: a sub-directory's members        *)
(* directly follow its own entry (the array is sorted by name), a member   *)
(* is never itself a sub-directory entry.                                  *)
WellFormed(T) ==
    /\ \A i \in 1 .. Len(T) : T[i].dir # None => T[i].grp = None
    /\ \A i, j \in 1 .. Len(T) : i # j /\ T[i].grp # None => T[j].grp # T[i].grp
    /\ \A j \in 1 .. Len(T) :
          T[j].dir # None =>
             \E s \in 1 .. j - 1 : /\ T[s].grp = T[j].dir
                                   /\ \A k \in s + 1 .. j : T[k].dir = T[j].dir

Tables == UNION {[1 .. n -> Filetype] : n \in 1 .. MaxFt}

VARIABLES table, sub, listed

Init ==
    /\ table \in {T \in Tables : WellFormed(T)}
    /\ sub \in {0} \cup {i \in 1 .. Len(table) : table[i].grp # None}
    /\ listed = DevDir(table, sub)

(* A device listing is one call; nothing follows it *)
Next == UNCHANGED <<table, sub, listed>>

Spec == Init /\ [][Next]_<<table, sub, listed>>

-----------------------------------------------------------------------------
(* Every entry names a filetype of the array and an extension valid for it *)
TypeOK ==
    /\ table \in Tables
    /\ listed \in Seq(UNION {{i} \X (IF table[i].ag > 0 THEN -2 .. table[i].ag - 1 ELSE {0})
                            : i \in 1 .. Len(table)})

\* spec.md 4.4, as a reference: the descriptors of the entered group (or
\* without '/' in the main directory), in array order, each from -1 (-2 for
\* a bitfield) to K-1, or once for a scalar
SpecListing(T, s) ==
    LET g == IF s = 0 THEN None ELSE T[s].grp
        keep == SelectSeq([i \in 1 .. Len(T) |-> i], LAMBDA i : T[i].dir = g)
        one(i) == IF T[i].ag = 0 THEN <<<<i, 0>>>>
                  ELSE [j \in 1 .. T[i].ag + (IF T[i].bitfield THEN 2 ELSE 1) |->
                          <<i, j - (IF T[i].bitfield THEN 3 ELSE 2)>>]
        RECURSIVE cat(_)
        cat(q) == IF q = <<>> THEN <<>> ELSE one(Head(q)) \o cat(Tail(q))
    IN cat(keep)

(* FS_devdir lists exactly the properties of the directory entered -- a    *)
(* sub-directory's members only inside it, each aggregate index once and   *)
(* in order -- for every well-formed filetype array.                       *)
ListingMatchesSpec == listed = SpecListing(table, sub)
=============================================================================
