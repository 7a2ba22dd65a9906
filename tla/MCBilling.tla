----------------------------- MODULE MCBilling -----------------------------
(* Bounded instances of Billing, by what has happened to the workspace.     *)
EXTENDS Billing, TLC

CONSTANTS h1, h2, r1, s1

Symmetry == Permutations({h1, h2})

Quiet ==
  /\ owners = {}
  /\ cache = "empty" /\ reading = [r \in Readers |-> "nothing"]
  /\ handler = [h \in Handlers |-> NoWork] /\ request = NoRequest /\ faults = 0
  /\ solo = None /\ overlap = FALSE /\ half = FALSE /\ unpriced = FALSE

\* Nothing so far, as in Init; the owner asks for nothing but the checkout.
NoTierYet ==
  /\ sub = [s \in Subs |-> [status |-> "none", flat |-> "free", metered |-> {}, addon |-> FALSE]]
  /\ events = {} /\ sent = 0 /\ requests = MaxRequests /\ Quiet
  /\ tier = "free" /\ subId = None /\ limit = "none" /\ warnings = {} /\ addonRow = FALSE

\* Pro with the add-on, every event handled to the end.
OnPro ==
  /\ sub = [s \in Subs |-> [status |-> "active", flat |-> "pro", metered |-> {"pro"}, addon |-> TRUE]]
  /\ events = {} /\ sent = 0 /\ requests = 0 /\ Quiet
  /\ tier = "pro" /\ subId = s1 /\ limit = "none" /\ warnings = {"pro"} /\ addonRow = TRUE

\* Hobby; the creation was handled up to the overage prices, failed there and
\* is delivered again.
OnHobby ==
  /\ sub = [s \in Subs |-> [status |-> "active", flat |-> "hobby", metered |-> {}, addon |-> FALSE]]
  /\ events = {[id |-> 1, type |-> "created", sub |-> s1, status |-> "active",
                flat |-> "hobby", addon |-> FALSE]}
  /\ sent = 1 /\ requests = 0 /\ Quiet
  /\ tier = "hobby" /\ subId = s1 /\ limit = "default" /\ warnings = {"hobby", "overage"}
  /\ addonRow = FALSE

MCSpec == (NoTierYet \/ OnPro \/ OnHobby) /\ [][Next]_vars
=============================================================================
