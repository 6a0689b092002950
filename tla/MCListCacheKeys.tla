-------------------------- MODULE MCListCacheKeys --------------------------
(* An id that another one begins with, and the filters of chosen requests: *)
(* an ordinary text, an empty one, the text None, and one whose colons     *)
(* make it read like the rest of a key.                                    *)
EXTENDS ListCacheKeys

Low == <<"low">>
Mixed == <<"low", "priority", "low">>

(* Pairs of filters, some of which share a key. *)
Pairs ==
  {<<Absent, Absent>>, <<<<"">>, Absent>>, <<<<"None">>, Absent>>, <<Low, Absent>>,
   <<Absent, Low>>, <<Mixed, Low>>, <<Low, Mixed>>}

MCRequests ==
  {[user |-> "1", status |-> p[1], priority |-> p[2]] : p \in Pairs}
    \cup {[user |-> "12", status |-> f, priority |-> Absent] : f \in {Absent, Low}}
=============================================================================
