------------------------------ MODULE MCStream ------------------------------
\* Values for model checking Stream.
EXTENDS Stream

MCRoute == <<"n1", "n2", "n3">>

\* All peers have configuration 9, or one has 22, whose text comes before.
MCConfigurations ==
  {[p \in {"n1", "n2", "n3"} |-> IF p = q THEN <<2, 2>> ELSE <<9>>] :
     q \in {"n1", "n2", "n3", "nobody"}}

\* A message for every decoder.
Content(code, body) == [code |-> MessageCode[code], body |-> body]
MCContents ==
  {Content("attach_req", [candidates |-> "offer", sendUpdate |-> FALSE]),
   Content("join_req", [localNodeID |-> "n1"]),
   Content("join_ans", [empty |-> TRUE]),
   Content("leave_req", [type |-> 2, id |-> "n1", list |-> <<"n2", "n3">>]),
   Content("update_ans", [predecessors |-> <<"n3">>, successors |-> <<"n2">>,
                          startTime |-> "now"]),
   Content("update_ans", [predecessors |-> <<"n2">>, successors |-> <<"n3">>,
                          startTime |-> "now"]),
   Content("update_req", [empty |-> TRUE]),
   Content("ping_req", [ips |-> <<"ip">>, port |-> 6084]),
   Content("ping_ans", [number |-> 7, time |-> "now"])}
=============================================================================
