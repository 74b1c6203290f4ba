--------------------------- MODULE MCTranscription ---------------------------
(* Instances of Transcription for TLC: primary keys in and against the order *)
(* of creation; runs are interchangeable, and so are requests.               *)
EXTENDS Transcription, TLC

Ascending  == [v \in Version |-> v]
Descending == [v \in Version |-> MaxVersions - v]

Interchangeable == Permutations(Run) \union Permutations(Request)

\* What is followed no further: the embedding job, which touches nothing the
\* properties speak of, while a request is under way, and a third actor beside
\* two runs or two requests, other than the corrections of people.
Apart ==
    /\ (\E e \in Embed : etask[e] # "off") => \A q \in Request : seen[q] = <<>>
    /\ Cardinality({r \in Run : phase[r] # "off"})
         + Cardinality({q \in Request : seen[q] # <<>>}) <= 2
=============================================================================
