-------------------------- MODULE LifecycleInvariant --------------------------
(***************************************************************************)
(* Why the actor implements CaseLifecycle: with one request per case,      *)
(* answered on the forum only and published or not, what each future finds *)
(* on its case's row.  A conjunction of named parts, on top of             *)
(* DecisionInvariant.                                                      *)
(***************************************************************************)
EXTENDS DecisionInvariant, DecisionLifecycle

(* When the lifecycle is what the code does: no decisions over REST, no     *)
(* decision elevated twice, no publication that errs and reached the forum. *)
OneRequest == Local = {} /\ ~Retrigger /\ "ack" \notin Faults

OfCase(r, c) == [req |-> r, case |-> c] \in asked

(* Every answer under way or on record is to its case's one request.        *)
Requests ==
    /\ \A a, b \in asked : a.req = b.req \/ a.case = b.case => a = b
    /\ journal \subseteq asked
    /\ \A r \in forum : \E c \in Case : OfCase(r, c)
    /\ \A m \in mailbox : m.src \in forum /\ OfCase(m.src, m.case)
    /\ \A t \in At("record") : t.src \in forum /\ OfCase(t.src, t.case)
    /\ \A d \in decided : OfCase(d.src, d.case)

(* A row is written once before its request is on the forum, and closed     *)
(* out only when it never will be.                                          *)
Openings ==
    /\ \A o \in opening :
          /\ OfCase(o.req, o.case)
          /\ \A p \in opening : p.case = o.case => p = o
          /\ o.pc = "persist" => db[o.case].status = "none"
          /\ o.pc \in {"publish", "closeout"} =>
                db[o.case].status = "pending" /\ o.req \notin forum
    /\ \A c \in Case : Known(c) => \E r \in Request : OfCase(r, c)
    /\ \A a \in asked : a.req \in forum =>
          db[a.case].status \notin {"none", "publish_failed", "elevated"}

(* The cases this process has in hand.                                      *)
Busy(c) ==
    \/ c \in pending
    \/ \E o \in opening : o.case = c
    \/ \E t \in tasks : t.case = c

Tracked(c) ==
    \/ elevating[c] # 0
    \/ \E s \in PollSlot : poll[s].left[c] # 0 \/ poll[s].at = c

Old(row) == row.status # "none" /\ Stale(row)

(* Until reconciliation is done, what is in hand is of this process's own   *)
(* time, so nothing in hand is planned to expire.                           *)
BootOrder ==
    /\ store <=> recon.pc # "off"
    /\ ~store => \A c \in Case : ~Busy(c) /\ ~Tracked(c)
    /\ recon.pc # "done" => expiring = {}
    /\ recon.pc \in {"armed", "apply"} =>
          \A c \in Case : Busy(c) \/ Tracked(c) => ~Old(db[c]) /\ ~Old(recon.snap[c])

(* What the rows a scan returned still say when they are acted on.          *)
Snapshot ==
    /\ recon.pc # "apply" => \A c \in Case : recon.snap[c] = NoRow
    /\ \A c \in Case :
          /\ recon.snap[c].status # "none" => Known(c)
          /\ Old(recon.snap[c]) /\ recon.snap[c].status \in {"pending", "approved"}
                => db[c].status = recon.snap[c].status
          /\ recon.pc = "apply" /\ db[c].status = "expired"
                => recon.snap[c].status = "expired"
          /\ recon.snap[c].status = "elevating" => recon.snap[c].pr # 0
          /\ db[c].status = "elevating" => db[c].pr # 0

(* An expiry finds its case unanswered or unclaimed, and alone.             *)
Expiries ==
    /\ \A c \in expiring : db[c].status \in {"pending", "approved"} /\ ~Busy(c)
    /\ \A c \in Case : Busy(c) => db[c].status # "expired"

(* From its claim to its stamp a future has the case to itself.             *)
Late == {"create", "open", "find", "read", "write", "map"}

Stages ==
    \A t \in tasks :
        /\ t.pc \in {"create", "open", "find"} =>
              db[t.case].status = "applying" /\ PrOf(t.case) = {}
        /\ t.pc \in {"read", "write"} =>
              /\ db[t.case].status = "applying" /\ db[t.case].pr = 0
              /\ recon.snap[t.case].pr = 0 /\ ~Tracked(t.case)
        /\ t.pc = "write" => t.opened = db[t.case].opened
        /\ t.pc \in Late => \A u \in tasks : u.pc \in Late /\ u.case = t.case => u = t

(* A case has one PR, and only once it was claimed.                         *)
OnePr ==
    \A c \in Case :
        /\ \A m, n \in PrOf(c) : m = n
        /\ PrOf(c) # {} => db[c].status \in {"applying", "elevating", "published", "abandoned"}

LifeInv == Requests /\ Openings /\ BootOrder /\ Snapshot /\ Expiries /\ Stages /\ OnePr

===============================================================================
