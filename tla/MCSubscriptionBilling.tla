------------------------ MODULE MCSubscriptionBilling ------------------------
(* A hosted service and a domain on one account. *)
EXTENDS SubscriptionBilling

CONSTANTS web, dom, o1, a1, a2, p1, p2, d1

Asked(kind, plan, term, services, mode) ==
    [kind |-> kind, plan |-> plan, term |-> term, services |-> services, mode |-> mode]
MCAsk == [c \in Calls |->
    CASE c = o1 -> Asked("order", "Starter", "annual", {web, dom}, "none")
      [] c = a1 -> Asked("attach", "Business", "monthly", {web}, "replace")
      [] c = a2 -> Asked("attach", "Starter", "monthly", {dom}, "none")
      [] c \in {p1, p2} -> Asked("pay", "Starter", "monthly", {}, "none")
      [] OTHER -> Asked("delete", "Starter", "monthly", {}, "none")]

Case(calls, begins, fails) == [calls |-> calls, begins |-> begins, mishaps |-> fails]
\* First orders, changed before they are paid; renewals paid, deleted or crossed
\* by a change of the plan; the year of an annual account.
MCScenarios ==
    {Case({o1}, "new", 1), Case({o1, p1, d1}, "new", 0), Case({a1, o1}, "new", 0),
     Case({p1, p2, d1}, "monthly", 1), Case({a1, p1}, "monthly", 1), Case({p1, d1, a2}, "annual", 0)}
==============================================================================
