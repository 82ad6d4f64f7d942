------------------------------ MODULE ChangeFeed ------------------------------
(***************************************************************************)
(* What the source journal promises the pipeline about one object, without *)
(* preconditions, requests, reads, retries or a queue: an operation that   *)
(* was recorded is closed once, with a generation that had its content or  *)
(* without one; and each revision of the project stands for a content that *)
(* was really stored, is not the one announced before, and is not older.   *)
(***************************************************************************)
EXTENDS Integers, Sequences

CONSTANTS Ops, Contents, Content, NoContent

VARIABLES
    stored,     \* the object's generations
    entry,      \* what the feed says of each operation
    told,       \* the content the pipeline was last told of, and its generation
    revision    \* how often it was told

feedVars == <<stored, entry, told, revision>>

FeedInit ==
    /\ stored = <<>>
    /\ entry = [o \in Ops |-> [state |-> "none", gen |-> 0, revision |-> 0]]
    /\ told = [gen |-> 0, content |-> NoContent]
    /\ revision = 0

Store(c) ==
    /\ stored' = Append(stored, c)
    /\ UNCHANGED <<entry, told, revision>>

Record(o) ==
    /\ entry[o].state = "none"
    /\ entry' = [entry EXCEPT ![o].state = "prepared"]
    /\ UNCHANGED <<stored, told, revision>>

GiveUp(o) ==
    /\ entry[o].state = "prepared"
    /\ entry' = [entry EXCEPT ![o].state = "aborted"]
    /\ UNCHANGED <<stored, told, revision>>

\* The operation is closed with a generation that had its content, at the
\* revision the project has then.
Closes(o, g) ==
    /\ entry[o].state = "prepared"
    /\ stored[g] = Content[o]
    /\ entry' = [entry EXCEPT ![o] = [state |-> "committed", gen |-> g, revision |-> revision']]
    /\ UNCHANGED stored

Announce(o, g) ==
    /\ Closes(o, g)
    /\ g >= told.gen
    /\ told.gen = 0 \/ told.content # Content[o]
    /\ told' = [gen |-> g, content |-> Content[o]]
    /\ revision' = revision + 1

\* Nothing new: an older generation, the content that was announced last, or
\* one the operation has found there.
Note(o, g) == Closes(o, g) /\ UNCHANGED <<told, revision>>

FeedNext ==
    \/ \E c \in Contents : Store(c)
    \/ \E o \in Ops :
         \/ Record(o) \/ GiveUp(o)
         \/ \E g \in DOMAIN stored : Announce(o, g) \/ Note(o, g)

FeedSpec == FeedInit /\ [][FeedNext]_feedVars
=============================================================================
