---------------------------- MODULE MCDelivery ----------------------------
(***************************************************************************)
(* Instances of Delivery for TLC: one or two tickets, with an incident     *)
(* each or none, and the plugins whose references meet.                    *)
(***************************************************************************)
EXTENDS Delivery

OneTicket  == {1}
TwoTickets == {1, 2}

OwnIncident == [t \in Tickets |-> {t}]
NoIncident  == [t \in Tickets |-> {}]

JiraRedmine == <<"jira", "redmine">>
JiraOracle  == <<"jira", "oracle">>
OracleOnly  == <<"oracle">>
=============================================================================
