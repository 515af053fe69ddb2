---------------------------- MODULE PluginRefs ----------------------------
(***************************************************************************)
(* The references a local ticket keeps to the requests that service desks  *)
(* registered for it, as values: what a plugin returns on registration,    *)
(* what apply_handler_results makes of it (worker/ticket_handlers.py), and *)
(* which request a plugin addresses later (plugins/).                      *)
(*                                                                         *)
(* All plugins write into one record: the last one owns external_ref and   *)
(* the key "system", and keys such as "sys_id" serve two systems.          *)
(***************************************************************************)
EXTENDS Naturals

CONSTANT NoRef   \* no reference: an absent key, None or ""

Systems ==
  {"jira", "redmine", "freshdesk", "servicenow", "simpleone", "naumen",
   "elma", "bitrix24", "oracle", "hpsm", "zammad"}

RestSystems == Systems \ {"oracle"}

IdKeys ==
  {"issue_key", "issue_id", "ticket_id", "sys_id", "uuid", "item_id", "task_id", "incident_id"}

(***************************************************************************)
(* A reference names the number-th request of a system: by the id its API  *)
(* takes, by that id after a "#", or by a name that is not the id.         *)
(***************************************************************************)
Forms == {"id", "hash", "name"}

Ref == [system : Systems, number : Nat \ {0}, form : Forms]

RefTo(p, n, form) == [system |-> p, number |-> n, form |-> form]

(* The result of on_created: external_ref, and an id under a key of external_meta. *)
Result(p, n, form, key) ==
  [system |-> p, ref |-> RefTo(p, n, form), key |-> key, id |-> RefTo(p, n, "id")]

JiraCreated(n)       == Result("jira",       n, "id",   "issue_key")
RedmineCreated(n)    == Result("redmine",    n, "hash", "issue_id")
FreshdeskCreated(n)  == Result("freshdesk",  n, "hash", "ticket_id")
ServiceNowCreated(n) == Result("servicenow", n, "name", "sys_id")
SimpleOneCreated(n)  == Result("simpleone",  n, "name", "sys_id")
NaumenCreated(n)     == Result("naumen",     n, "name", "uuid")
ElmaCreated(n)       == Result("elma",       n, "name", "item_id")
Bitrix24Created(n)   == Result("bitrix24",   n, "hash", "task_id")
HpsmCreated(n)       == Result("hpsm",       n, "id",   "incident_id")
ZammadCreated(n)     == Result("zammad",     n, "name", "ticket_id")

Created(p, n) ==
  CASE p = "jira"       -> JiraCreated(n)
    [] p = "redmine"    -> RedmineCreated(n)
    [] p = "freshdesk"  -> FreshdeskCreated(n)
    [] p = "servicenow" -> ServiceNowCreated(n)
    [] p = "simpleone"  -> SimpleOneCreated(n)
    [] p = "naumen"     -> NaumenCreated(n)
    [] p = "elma"       -> ElmaCreated(n)
    [] p = "bitrix24"   -> Bitrix24Created(n)
    [] p = "hpsm"       -> HpsmCreated(n)
    [] p = "zammad"     -> ZammadCreated(n)

-----------------------------------------------------------------------------
(***************************************************************************)
(* x is the external part of a ticket: external_ref as ref, and of         *)
(* external_meta the keys external_refs as refs, system, and the id keys   *)
(* as ids.                                                                 *)
(***************************************************************************)
Registered(x, result) ==
  [x EXCEPT !.ref                 = result.ref,
            !.refs[result.system] = result.ref,
            !.system              = result.system,
            !.ids[result.key]     = result.id]

FirstOf(r, s) == IF r # NoRef THEN r ELSE s

(* As it would be if nobody stripped the "#". *)
KeepHash(r) == r

(* lstrip("#") *)
StripHash(r) == IF r # NoRef /\ r.form = "hash" THEN [r EXCEPT !.form = "id"] ELSE r

(* The id of a plugin's own, while external_meta is the one it wrote last. *)
FromMeta(p, key, x) == IF x.system = p THEN x.ids[key] ELSE NoRef

(* isdigit() holds of what these systems show, but for a "#". *)
ShownInDigits == {"redmine", "freshdesk", "bitrix24", "zammad", "oracle"}

(* external_ref, whoever wrote it, if it is in digits; if it is not. *)
FromDigits(x) ==
  IF x.ref # NoRef /\ x.ref.system \in ShownInDigits THEN StripHash(x.ref) ELSE NoRef

(* As it would be if the looks of external_ref did not matter. *)
FromAny(x) == x.ref

FromText(x) ==
  IF x.ref # NoRef /\ x.ref.system \notin ShownInDigits THEN x.ref ELSE NoRef

-----------------------------------------------------------------------------
(* _jira_issue_key *)
JiraIssueKey(x) ==
  FirstOf(x.refs["jira"], FirstOf(FromMeta("jira", "issue_key", x), FromText(x)))

(* _redmine_issue_id *)
RedmineIssueId(x) ==
  FirstOf(StripHash(x.refs["redmine"]), FirstOf(FromMeta("redmine", "issue_id", x), FromDigits(x)))

(* _freshdesk_ticket_id *)
FreshdeskTicketId(x) ==
  FirstOf(StripHash(x.refs["freshdesk"]),
          FirstOf(FromMeta("freshdesk", "ticket_id", x), FromDigits(x)))

(* external_id of plugins/_refs.py, which does not strip what external_refs holds. *)
ExternalId(p, key, x, last) == FirstOf(x.refs[p], FirstOf(FromMeta(p, key, x), last))

ServiceNowSysId(x) == x.ids["sys_id"]
SimpleOneSysId(x)  == x.ids["sys_id"]
NaumenUuid(x)      == x.ids["uuid"]
ZammadTicketId(x)  == x.ids["ticket_id"]

(* The request plugin p addresses for the ticket, NoRef if it knows of none. *)
Address(p, x) ==
  CASE p = "jira"       -> JiraIssueKey(x)
    [] p = "redmine"    -> RedmineIssueId(x)
    [] p = "freshdesk"  -> FreshdeskTicketId(x)
    [] p = "servicenow" -> ServiceNowSysId(x)
    [] p = "simpleone"  -> SimpleOneSysId(x)
    [] p = "naumen"     -> NaumenUuid(x)
    [] p = "elma"       -> ExternalId("elma", "item_id", x, FromText(x))
    [] p = "bitrix24"   -> ExternalId("bitrix24", "task_id", x, FromDigits(x))
    [] p = "hpsm"       -> ExternalId("hpsm", "incident_id", x, FromText(x))
    [] p = "zammad"     -> ZammadTicketId(x)

-----------------------------------------------------------------------------
(* _oracle_ref: the number Oracle gave, else whatever external_ref holds. *)
OracleRef(x) == FirstOf(x.refs["oracle"], x.ref)

(***************************************************************************)
(* _p_id_monit: the reference if it parses as an integer, else the number  *)
(* of the local ticket, here NoRef.  Only Oracle's own number parses; the  *)
(* digits of the others are shown after a "#".                             *)
(***************************************************************************)
IdMonit(x) ==
  LET r == OracleRef(x)
  IN  IF r # NoRef /\ r.system = "oracle" THEN r ELSE NoRef
=============================================================================
