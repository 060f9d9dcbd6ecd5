------------------------------ MODULE JobReads ------------------------------
(***************************************************************************)
(* Who may read what of the jobs table: the key a request presents, the    *)
(* principal it stands for, what every endpoint of a job answers first,    *)
(* and the pages of a principal's list while rows come and go.             *)
(*                                                                         *)
(* An answer is the reason given with it, never the content that goes out. *)
(***************************************************************************)
EXTENDS JobsApi

CONSTANTS
  Owner, Stranger,  \* principals; the jobs of JobsApi are the first one's
  Nobody,           \* no principal
  Secrets,          \* API keys somebody may present
  Absent, Blank     \* a header that was not sent, one of spaces only

Principals == {Owner, Stranger}

ASSUME ReadersAssumption ==
  /\ Absent \notin Secrets /\ Blank \notin Secrets /\ Absent # Blank
  /\ Owner # Stranger /\ Nobody \notin Principals

-----------------------------------------------------------------------------
(* Authentication                                                          *)

\* API_KEYS is a list of principal:key; a key given twice is the last one's.
ParsedKeys(entries) ==
  LET Places(s) == {i \in DOMAIN entries : entries[i].secret = s}
      last(s)   == CHOOSE i \in Places(s) : \A k \in Places(s) : k <= i
  IN [s \in {entries[i].secret : i \in DOMAIN entries} |-> entries[last(s)].principal]

\* X-API-Key goes first, even if nothing but spaces is in it; a scheme other
\* than Bearer presents nothing.
Presented(xApiKey, scheme, credentials) ==
  IF xApiKey # Absent THEN xApiKey
  ELSE IF scheme = "bearer" THEN credentials ELSE Absent

Authenticate(entries, secret) ==
  LET keys == ParsedKeys(entries) IN
  IF secret \in DOMAIN keys THEN keys[secret] ELSE Nobody

-----------------------------------------------------------------------------
(* The endpoints of one job                                                *)

Documents == {"requirements", "architecture", "review", "tests"}
Changes   == {"cancel", "retry", "delete"}
Downloads == {"files", "file", "archive"}
Endpoints == Documents \cup Changes \cup Downloads \cup {"get", "publish", "events"}

NoSuchJob == 0

AnyJob(who, id)   == id \in Jobs /\ status[id] \notin Gone
\* A job of somebody else is not found, as one that does not exist.
OwnedJob(who, id) == id \in Jobs /\ status[id] \notin Gone /\ who = Owner

\* What the handler of an owned job answers, from the status it has read. What it
\* reads later may have moved on: cancel and retry then answer with a conflict.
Changed(endpoint, s) ==
  CASE endpoint = "cancel" -> {"conflict"} \cup {a \in {"ok"} : s \notin Terminal}
    [] endpoint = "retry"  -> {"conflict"} \cup {a \in {"ok", "limit", "budget"} : s = "failed"}
    [] endpoint = "delete" -> IF s \in Terminal THEN {"ok"} ELSE {"conflict"}

\* A document is a column, null until its stage has completed.
Produced == {"ok", "not produced yet"}

Downloaded(endpoint, s) ==
  CASE endpoint = "files"   -> {"ok"}
    [] endpoint = "file"    -> {"ok", "file not found"}
    [] endpoint = "archive" -> IF s = "succeeded" THEN {"ok"} ELSE {"conflict"}

Published(s) == {"not configured", "invalid name", "conflict"}
                  \cup {a \in {"ok", "failed"} : s = "succeeded"}

Serve(endpoint, s) ==
  CASE endpoint \in Documents -> Produced
    [] endpoint \in Changes   -> Changed(endpoint, s)
    [] endpoint \in Downloads -> Downloaded(endpoint, s)
    [] endpoint = "publish"   -> Published(s)
    [] OTHER                  -> {"ok"}

Answers(endpoint, who, id) ==
  IF who = Nobody THEN {"invalid key"}
  ELSE IF OwnedJob(who, id) THEN Serve(endpoint, status[id])
  ELSE {"job not found"}

-----------------------------------------------------------------------------
(* The list, newest first, a page at a time                                *)

Start == [at |-> 0, id |-> 0]  \* no cursor

Newer(x, y) == x.at > y.at \/ (x.at = y.at /\ x.id > y.id)

\* Rows behind a cursor, for a client that sends both of its parts back.
Behind(rows, cursor) == {x \in rows : cursor = Start \/ Newer(cursor, x)}

\* One row more than the limit is read, to learn whether another page follows.
Page(rows, cursor, limit) ==
  LET behind == Behind(rows, cursor)
      items  == {x \in behind : Cardinality({y \in behind : Newer(y, x)}) < limit}
      more   == Cardinality(behind) > limit
  IN [items |-> items,
      next  |-> IF more THEN CHOOSE x \in items : \A y \in items \ {x} : Newer(y, x) ELSE Start]

\* All pages of a walk whose table is replaced by another in front of page k.
Walk(before, after, k, limit) ==
  LET pages[n \in 1..Cardinality(before \cup after) + 1] ==
        IF n = 1 THEN Page(before, Start, limit)
        ELSE IF pages[n - 1].next = Start THEN [items |-> {}, next |-> Start]
        ELSE Page(IF n < k THEN before ELSE after, pages[n - 1].next, limit)
  IN pages

-----------------------------------------------------------------------------
(* Properties                                                              *)

\* "404 (not 403) so job IDs of other principals are not disclosed": no endpoint
\* answers a stranger anything about a job it would not answer about an id that
\* was never given out, whatever state the job is in; nor does a deleted job
\* answer its owner.
StrangersLearnNothing ==
  \A endpoint \in Endpoints, j \in Jobs :
    /\ \A who \in {Stranger, Nobody} :
         Answers(endpoint, who, j) = Answers(endpoint, who, NoSuchJob)
    /\ status[j] \in Gone => Answers(endpoint, Owner, j) = Answers(endpoint, Owner, NoSuchJob)

\* Whatever the two headers and the configured keys, a request acts for a
\* principal only with a key of theirs, and for one whose key it presents.
KeysNameTheirOwners ==
  submits = 0 =>
    \A n \in 0..3 : \A entries \in [1..n -> [principal : Principals, secret : Secrets]] :
      \A x \in Secrets \cup {Absent, Blank}, c \in Secrets \cup {Absent, Blank},
         scheme \in {"bearer", "basic"} :
        LET secret == Presented(x, scheme, c)
            who    == Authenticate(entries, secret)
            owners == {entries[i].principal : i \in {i \in 1..n : entries[i].secret = secret}}
        IN /\ who # Nobody => who \in owners /\ secret \in {x, c}
           /\ who = Nobody => owners = {}
           /\ x = Blank => who = Nobody

Ids == 1..4

\* "jobs sharing a timestamp across a page boundary are neither skipped nor
\* repeated": a walk over the pages shows every job that was there all along
\* exactly once and no job twice, whatever is created and deleted between two
\* pages. A new job is no older than those there were.
PagesCoverTheList ==
  submits = 0 =>
    \A at \in [Ids -> 1..2], old, new \in SUBSET Ids :
      LET rows(ids) == {[at |-> at[i], id |-> i] : i \in ids} IN
      (\A i \in new \ old, j \in old : at[i] >= at[j]) =>
        \A limit \in 1..2, k \in 2..3 :
          LET pages == Walk(rows(old), rows(new), k, limit)
              Times(x) == Cardinality({n \in DOMAIN pages : x \in pages[n].items})
          IN /\ \A x \in rows(old \cap new) : Times(x) = 1
             /\ \A x \in rows(old \cup new) : Times(x) <= 1

\* What a reader gets to see: the three above.
ReadsSound == StrangersLearnNothing /\ KeysNameTheirOwners /\ PagesCoverTheList

=============================================================================
