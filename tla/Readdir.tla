------------------------------- MODULE Readdir -------------------------------
(***************************************************************************)
(* FileReader.Readdir and Readdirnames (file_reader.go): listing a         *)
(* directory in several getListing calls, each of which returns the        *)
(* entries after a given name, up to a limit of the namenode's, while      *)
(* others add and remove entries.  A name is its place in the order of     *)
(* names, and "" is 0.                                                     *)
(***************************************************************************)
EXTENDS Integers, Sequences, FiniteSets, Functions

CONSTANTS
    NNames,         \* names that can occur
    Limit,          \* entries in one answer of the namenode
    Counts,         \* the n that Readdir is called with
    MaxChanges,     \* bound: entries added or removed by others
    MaxFailures     \* bound: getListing calls that fail

ASSUME ReaddirAssumption ==
    /\ NNames \in Nat /\ Limit \in Nat \ {0} /\ Counts \subseteq Int
    /\ MaxChanges \in Nat /\ MaxFailures \in Nat

Names == 1 .. NNames

VARIABLES
    entries,        \* the directory, at the namenode
    readdirLast,
    pc, n, res,     \* the Readdir in progress: its argument and result so far
    ret,            \* what the last one returned: names and error
    listed,         \* history: the names returned since the listing began
    stable,         \* history: the names that were there all that time
    changes, failures

vars == <<entries, readdirLast, pc, n, res, ret, listed, stable, changes, failures>>

Init ==
    /\ entries \in SUBSET Names
    /\ readdirLast = 0
    /\ pc = "idle" /\ n = 0 /\ res = <<>> /\ ret = <<<<>>, "none">>
    /\ listed = <<>> /\ stable = entries
    /\ changes = 0 /\ failures = 0

\* The call; with n <= 0 it starts from the beginning.
Readdir(k) ==
    /\ pc = "idle"
    /\ pc' = "list" /\ n' = k /\ res' = <<>>
    /\ readdirLast' = IF k <= 0 THEN 0 ELSE readdirLast
    /\ listed' = IF k <= 0 THEN <<>> ELSE listed
    /\ stable' = IF k <= 0 THEN entries ELSE stable
    /\ UNCHANGED <<entries, ret, changes, failures>>

\* getListing: the entries after a name, in order.  Entry i is the one with i - 1
\* of them before it.
Before(e, S) == {x \in S : x < e}

Sorted(S) ==
    [i \in 1 .. Cardinality(S) |-> CHOOSE e \in S : Cardinality(Before(e, S)) = i - 1]

Listing(after) == Sorted({e \in entries : e > after})

Batch(after) == SubSeq(Listing(after), 1, IF Len(Listing(after)) < Limit
                                          THEN Len(Listing(after)) ELSE Limit)

Return(names, err) ==
    /\ pc' = "idle"
    /\ ret' = <<names, err>>
    /\ listed' = listed \o names

\* Mutant: entries thrown away are not listed again.
CutThrowsAway(all, last) ==
    IF n > 0 /\ Len(all) > n
    THEN readdirLast' = last /\ Return(SubSeq(all, 1, n), "nil")
    ELSE readdirLast' = last /\ Return(all, "nil")

\* More than n entries: the others are for the next call.
Cut(all, last) ==
    IF n > 0 /\ Len(all) > n
    THEN readdirLast' = all[n] /\ Return(SubSeq(all, 1, n), "nil")
    ELSE readdirLast' = last /\ Return(all, "nil")

\* Mutant: the number of remaining entries is not looked at.
EnoughIfFull(all, remaining) == n > 0 /\ Len(all) >= n

\* When the loop ends.
Enough(all, remaining) == remaining = 0 \/ (n > 0 /\ Len(all) >= n)

\* Nothing more, for a caller that asked for some.
NoEntries(all) == n > 0 /\ all = <<>>

\* Mutant: the last name of a batch is not remembered.
LastNameForgotten(batch) == readdirLast

\* f.readdirLast after a batch.
LastName(batch) == IF batch = <<>> THEN readdirLast ELSE batch[Len(batch)]

\* One round of the loop, and what comes after the last one.
ReaddirLoop ==
    /\ pc = "list"
    /\ LET batch == Batch(readdirLast)
           all == res \o batch
           last == LastName(batch)
           remaining == Len(Listing(readdirLast)) - Len(batch)
       IN  IF Enough(all, remaining)
           THEN /\ IF NoEntries(all)
                   THEN readdirLast' = last /\ Return(<<>>, "EOF")
                   ELSE Cut(all, last)
                /\ res' = <<>>
           ELSE /\ res' = all /\ readdirLast' = last
                /\ UNCHANGED <<pc, ret, listed>>
    /\ UNCHANGED <<entries, n, stable, changes, failures>>

\* The namenode refuses or does not answer: nothing is returned.
ReaddirFails ==
    /\ pc = "list"
    /\ failures < MaxFailures /\ failures' = failures + 1
    /\ Return(<<>>, "error")
    /\ UNCHANGED <<entries, readdirLast, n, res, stable, changes>>

\* Another client.
Change(e) ==
    /\ changes < MaxChanges /\ changes' = changes + 1
    /\ entries' = IF e \in entries THEN entries \ {e} ELSE entries \cup {e}
    /\ stable' = stable \ {e}
    /\ UNCHANGED <<readdirLast, pc, n, res, ret, listed, failures>>

Next ==
    \/ \E k \in Counts : Readdir(k)
    \/ ReaddirLoop \/ ReaddirFails
    \/ \E e \in Names : Change(e)

Spec == Init /\ [][Next]_vars

FairSpec == Spec /\ WF_vars(ReaddirLoop)

-----------------------------------------------------------------------------
(* Properties.                                                             *)

\* Every variable keeps its type.
TypeOK ==
    /\ entries \subseteq Names /\ stable \subseteq entries
    /\ readdirLast \in 0 .. NNames
    /\ pc \in {"idle", "list"} /\ n \in Counts \cup {0}
    /\ res \in Seq(Names) /\ listed \in Seq(Names)
    /\ ret \in Seq(Names) \X {"none", "nil", "EOF", "error"}

\* Over a whole listing, in one call or in many, names come in order and none
\* comes twice, whatever is added or removed meanwhile.
InOrder == \A i, j \in 1 .. Len(listed) : i < j => listed[i] < listed[j]

\* "Subsequent calls on the same file will yield further os.FileInfos": when
\* the end is reached, every entry that was there all along has been returned.
\* (Without failures; see NothingSkipped.)
Complete ==
    failures = 0 /\ pc = "idle" /\ (ret[2] = "EOF" \/ (n <= 0 /\ ret[2] = "nil")) =>
        stable \subseteq Range(listed)

\* "If n > 0, Readdir returns at most n os.FileInfo values. In this case, if
\* Readdir returns an empty slice, it will return a non-nil error".
AtMostN ==
    pc = "idle" /\ n > 0 => Len(ret[1]) <= n /\ (ret[1] = <<>> => ret[2] # "nil")

\* What the comment on Readdir says of its results: none is left out, and no
\* more come than were asked for.
AsDocumented == Complete /\ AtMostN

\* Readdir returns, as long as the directory stops changing.
ReaddirReturns == pc = "list" ~> pc = "idle"

\* Does not hold (README, "Where the code differs").
\* The same as Complete, after calls that failed too.
NothingSkipped ==
    pc = "idle" /\ ret[2] = "EOF" => stable \subseteq Range(listed)

\* Does not hold (README, "Where the code differs").
\* "If it encounters an error before the end of the directory, Readdir returns
\* the os.FileInfo read until that point and a non-nil error."
PartialOnError ==
    pc = "idle" /\ ret[2] = "error" /\ n <= 0 => ret[1] = res
=============================================================================
