------------------------------ MODULE SourceStore ------------------------------
(***************************************************************************)
(* What the tables of a source promise to those who read them, whoever      *)
(* writes them, in what order, and wherever it stops: bytes are kept, then   *)
(* filed, once a fetch; an entry is made from a filed artifact, keeps for    *)
(* good the day it was first seen, and only ever says what some parser       *)
(* version reads in a filed artifact; evidence cites what is entered and     *)
(* where it can be read; nothing is taken away.  SourceRun implements it.    *)
(***************************************************************************)
EXTENDS Integers

CONSTANTS
    Page, Body,   \* where an artifact comes from, and what it holds
    Item,         \* what can be entered
    Readings,     \* [Item -> [Body -> the fingerprints some version reads there]]
    None

VARIABLES
    clock,        \* number of fetches so far
    bytes,        \* bodies kept
    artifacts,    \* [url, content, at] of every filed artifact
    entries,      \* [fp, art, first] of every entered item
    cited         \* evidence: <<item, artifact id>>

tables == <<clock, bytes, artifacts, entries, cited>>

Id(a) == <<a.url, a.content>>

Init ==
    /\ clock = 0
    /\ bytes = {}
    /\ artifacts = {}
    /\ entries = [x \in Item |-> None]
    /\ cited = {}

Keep(c) ==
    /\ clock' = clock + 1
    /\ bytes' = bytes \cup {c}
    /\ UNCHANGED <<artifacts, entries, cited>>

File(u, c, t) ==
    /\ c \in bytes
    /\ \A a \in artifacts : a.at # t /\ Id(a) # <<u, c>>
    /\ artifacts' = artifacts \cup {[url |-> u, content |-> c, at |-> t]}
    /\ UNCHANGED <<clock, bytes, entries, cited>>

Enter(x, a, fp) ==
    /\ entries[x] = None
    /\ entries' = [entries EXCEPT ![x] = [fp |-> fp, art |-> Id(a), first |-> a.at]]

Amend(x, a, fp) ==
    /\ entries[x] # None
    /\ entries' = [entries EXCEPT ![x] = [fp |-> fp, art |-> Id(a), first |-> entries[x].first]]

\* A replay corrects what an entry says, not where it was last found.
Correct(x, fp) ==
    /\ entries[x] # None
    /\ entries' = [entries EXCEPT ![x] = [entries[x] EXCEPT !.fp = fp]]

Write(x, a, fp) ==
    /\ Enter(x, a, fp) \/ Amend(x, a, fp) \/ Correct(x, fp)
    /\ UNCHANGED <<clock, bytes, artifacts, cited>>

Cite(x, a) ==
    /\ entries[x] # None
    /\ Readings[x][a.content] # {}
    /\ cited' = cited \cup {<<x, Id(a)>>}
    /\ UNCHANGED <<clock, bytes, artifacts, entries>>

Next ==
    \/ \E c \in Body : Keep(c)
    \/ \E u \in Page, c \in Body, t \in 1..clock : File(u, c, t)
    \/ \E x \in Item : \E a \in artifacts :
          Cite(x, a) \/ \E fp \in Readings[x][a.content] : Write(x, a, fp)

Spec == Init /\ [][Next]_tables
================================================================================
