--------------------------- MODULE McpGrants_proofs ---------------------------
(***************************************************************************)
(* Theorems about McpGrants, for any numbers of runs, calls and tests.     *)
(***************************************************************************)
EXTENDS McpGrants, TLAPS

\* A call that is about to be sent with an open client has a grant, or a
\* revocation is about to close that client.
ClearedIsWatched ==
  \A k \in Calls :
    CallAt(k, "cleared") /\ calls[k].held /\ grants[MyGrant(k)] = "deleted"
      => MyGrant(k) \in closing \cup silent

IInv == TypeOK /\ GrantsAreBacked /\ TestIsOfCurrentSettings /\ ClearedIsWatched
-----------------------------------------------------------------------------
\* What CallsWithout does to a call: it may only lose its client.
LEMMA CallsWithoutCloses ==
  ASSUME TypeOK, NEW rs \in SUBSET Runs, NEW k \in Calls
  PROVE  /\ CallsWithout(rs)[k] \in {Idle} \cup CallsAt(Places)
         /\ CallsWithout(rs)[k].at = calls[k].at
         /\ calls[k] # Idle => /\ CallsWithout(rs)[k].grant = calls[k].grant
                               /\ CallsWithout(rs)[k].held => calls[k].held /\ calls[k].grant \notin rs
<1>1. CASE calls[k] = Idle
  BY <1>1 DEF CallsWithout
<1>2. CASE calls[k] # Idle
  <2>1. calls[k] \in CallsAt(Places)
    BY <1>2 DEF TypeOK
  <2> QED
    BY <1>2, <2>1 DEF CallsWithout, CallsAt, Idle, Places
<1> QED
  BY <1>1, <1>2

LEMMA CallsWithoutType ==
  ASSUME TypeOK, NEW rs \in SUBSET Runs
  PROVE  CallsWithout(rs) \in [Calls -> {Idle} \cup CallsAt(Places)]
BY CallsWithoutCloses DEF CallsWithout

\* A call that is not idle has a grant and knows whether its client is open.
LEMMA BusyCall ==
  ASSUME TypeOK, NEW k \in Calls, NEW place \in Places, CallAt(k, place)
  PROVE  calls[k] \in CallsAt(Places) /\ calls[k] # Idle /\ MyGrant(k) \in Runs
BY DEF TypeOK, CallAt, CallsAt, Places, Idle, MyGrant

\* A deletion leaves the other grants alone, and is seen or silent.
LEMMA Deletion ==
  ASSUME TypeOK, NEW rs \in SUBSET Runs, DeleteGrants(rs)
  PROVE  /\ grants' \in [Runs -> Rows \cup {"none", "deleted"}]
         /\ closing' \subseteq Runs /\ silent' \subseteq Runs
         /\ \A r \in rs : grants'[r] = "deleted" /\ r \in closing' \cup silent'
         /\ \A r \in Runs \ rs : grants'[r] = grants[r]
         /\ closing \cup silent \subseteq closing' \cup silent'
BY DEF DeleteGrants, Gone, TypeOK

LEMMA InitIInv == Init => IInv
<1> SUFFICES ASSUME Init PROVE IInv
  OBVIOUS
<1>1. bound \in BOOLEAN /\ testing \in BOOLEAN
  BY DEF Init
<1>2. TypeOK
  BY <1>1 DEF Init, TypeOK
<1>3. GrantsAreBacked /\ TestIsOfCurrentSettings
  BY DEF Init, GrantsAreBacked, TestIsOfCurrentSettings, Rows, Usable
<1>4. ClearedIsWatched
  BY DEF Init, ClearedIsWatched, CallAt, Idle
<1> QED
  BY <1>2, <1>3, <1>4 DEF IInv
-----------------------------------------------------------------------------

LEMMA RunBeginsKeeps ==
  ASSUME IInv, NEW r \in Runs, RunBegins(r)
  PROVE  IInv'
<1> USE DEF IInv, settings, manager, rows, tester
<1>11. TypeOK'
  BY DEF RunBegins, TypeOK
<1>12. GrantsAreBacked'
  BY DEF RunBegins, GrantsAreBacked
<1>13. TestIsOfCurrentSettings'
  BY DEF RunBegins, TestIsOfCurrentSettings
<1>14. ClearedIsWatched'
  BY DEF RunBegins, ClearedIsWatched, CallAt, MyGrant
<1> QED
  BY <1>11, <1>12, <1>13, <1>14

LEMMA RunEndsKeeps ==
  ASSUME IInv, NEW r \in Runs, RunEnds(r)
  PROVE  IInv'
<1> USE DEF IInv, settings, manager, rows, tester
<1>11. TypeOK'
  BY DEF RunEnds, TypeOK
<1>12. GrantsAreBacked'
  BY DEF RunEnds, GrantsAreBacked
<1>13. TestIsOfCurrentSettings'
  BY DEF RunEnds, TestIsOfCurrentSettings
<1>14. ClearedIsWatched'
  BY DEF RunEnds, ClearedIsWatched, CallAt, MyGrant
<1> QED
  BY <1>11, <1>12, <1>13, <1>14

LEMMA IssueKeeps ==
  ASSUME IInv, NEW r \in Runs, Issue(r)
  PROVE  IInv'
<1> USE DEF IInv, settings, manager, rows, tester
<1>11. TypeOK'
  BY DEF Issue, TypeOK, Rows, Usable
<1>12. GrantsAreBacked'
  BY DEF Issue, GrantsAreBacked, Rows, Usable, TypeOK
<1>13. TestIsOfCurrentSettings'
  BY DEF Issue, TestIsOfCurrentSettings
<1>14. ClearedIsWatched'
  BY DEF Issue, ClearedIsWatched, CallAt, MyGrant, Usable, TypeOK
<1> QED
  BY <1>11, <1>12, <1>13, <1>14

LEMMA RenewKeeps ==
  ASSUME IInv, NEW r \in Runs, Renew(r)
  PROVE  IInv'
<1> USE DEF IInv, settings, manager, rows, tester
<1>11. TypeOK'
  BY DEF Renew, TypeOK, Rows, Usable
<1>12. GrantsAreBacked'
  BY DEF Renew, GrantsAreBacked, Rows, Usable, TypeOK
<1>13. TestIsOfCurrentSettings'
  BY DEF Renew, TestIsOfCurrentSettings
<1>14. ClearedIsWatched'
  BY DEF Renew, ClearedIsWatched, CallAt, MyGrant, Usable, TypeOK
<1> QED
  BY <1>11, <1>12, <1>13, <1>14

LEMMA RevokeKeeps ==
  ASSUME IInv, NEW r \in Runs, Revoke(r)
  PROVE  IInv'
<1> USE DEF IInv, settings, manager, rows, tester
<1> DEFINE rs == {r}
<1>1. rs \in SUBSET Runs /\ DeleteGrants(rs)
  BY DEF Revoke, Existing
<1>2. /\ grants' \in [Runs -> Rows \cup {"none", "deleted"}]
      /\ closing' \subseteq Runs /\ silent' \subseteq Runs
      /\ \A x \in rs : grants'[x] = "deleted" /\ x \in closing' \cup silent'
      /\ \A x \in Runs \ rs : grants'[x] = grants[x]
      /\ closing \cup silent \subseteq closing' \cup silent'
  BY <1>1, Deletion
<1>11. TypeOK'
  BY <1>2 DEF Revoke, TypeOK
<1>12. GrantsAreBacked'
  BY <1>2, <1>1 DEF Revoke, GrantsAreBacked, Existing, Rows, Usable
<1>13. TestIsOfCurrentSettings'
  BY DEF Revoke, TestIsOfCurrentSettings
<1>14. ClearedIsWatched'
  BY <1>2, <1>1 DEF Revoke, ClearedIsWatched, CallAt, MyGrant, TypeOK, CallsAt, Idle, Places
<1> QED
  BY <1>11, <1>12, <1>13, <1>14

LEMMA AgeKeeps ==
  ASSUME IInv, NEW r \in Runs, Age(r)
  PROVE  IInv'
<1> USE DEF IInv, settings, manager, rows, tester
<1>11. TypeOK'
  BY DEF Age, TypeOK, Rows, Usable
<1>12. GrantsAreBacked'
  BY DEF Age, GrantsAreBacked, Rows, Usable, TypeOK
<1>13. TestIsOfCurrentSettings'
  BY DEF Age, TestIsOfCurrentSettings
<1>14. ClearedIsWatched'
  BY DEF Age, ClearedIsWatched, CallAt, MyGrant, Usable, TypeOK
<1> QED
  BY <1>11, <1>12, <1>13, <1>14

LEMMA TrashKeeps ==
  ASSUME IInv, Trash
  PROVE  IInv'
<1> USE DEF IInv, settings, manager, rows, tester
<1>11. TypeOK'
  BY DEF Trash, TypeOK
<1>12. GrantsAreBacked'
  BY DEF Trash, GrantsAreBacked
<1>13. TestIsOfCurrentSettings'
  BY DEF Trash, TestIsOfCurrentSettings
<1>14. ClearedIsWatched'
  BY DEF Trash, ClearedIsWatched, CallAt, MyGrant
<1> QED
  BY <1>11, <1>12, <1>13, <1>14

LEMMA RestoreKeeps ==
  ASSUME IInv, Restore
  PROVE  IInv'
<1> USE DEF IInv, settings, manager, rows, tester
<1>11. TypeOK'
  BY DEF Restore, TypeOK
<1>12. GrantsAreBacked'
  BY DEF Restore, GrantsAreBacked
<1>13. TestIsOfCurrentSettings'
  BY DEF Restore, TestIsOfCurrentSettings
<1>14. ClearedIsWatched'
  BY DEF Restore, ClearedIsWatched, CallAt, MyGrant
<1> QED
  BY <1>11, <1>12, <1>13, <1>14

LEMMA PurgeKeeps ==
  ASSUME IInv, Purge
  PROVE  IInv'
<1> USE DEF IInv, settings, manager, rows, tester
<1>11. TypeOK'
  BY DEF Purge, TypeOK, Gone, Existing
<1>12. GrantsAreBacked'
  BY DEF Purge, GrantsAreBacked, Gone, Existing, Rows, Usable, TypeOK
<1>13. TestIsOfCurrentSettings'
  BY DEF Purge, TestIsOfCurrentSettings
<1>14. ClearedIsWatched'
  BY DEF Purge, Gone, Existing, ClearedIsWatched, CallAt, MyGrant, TypeOK, CallsAt, Idle, Places
<1> QED
  BY <1>11, <1>12, <1>13, <1>14

LEMMA UpdateKeeps ==
  ASSUME IInv, NEW state \in {"on", "off"}, Update(state)
  PROVE  IInv'
<1> USE DEF IInv, settings, manager, rows, tester
<1> DEFINE rs == IF state = "off" THEN Existing ELSE {}
<1>1. rs \in SUBSET Runs /\ DeleteGrants(rs)
  BY DEF Update, Existing
<1>2. /\ grants' \in [Runs -> Rows \cup {"none", "deleted"}]
      /\ closing' \subseteq Runs /\ silent' \subseteq Runs
      /\ \A x \in rs : grants'[x] = "deleted" /\ x \in closing' \cup silent'
      /\ \A x \in Runs \ rs : grants'[x] = grants[x]
      /\ closing \cup silent \subseteq closing' \cup silent'
  BY <1>1, Deletion
<1>11. TypeOK'
  BY <1>2 DEF Update, TypeOK
<1>12. GrantsAreBacked'
  BY <1>2, <1>1 DEF Update, GrantsAreBacked, Existing, Rows, Usable
<1>13. TestIsOfCurrentSettings'
  BY DEF Update, TestIsOfCurrentSettings
<1>14. ClearedIsWatched'
  BY <1>2, <1>1 DEF Update, ClearedIsWatched, CallAt, MyGrant, TypeOK, CallsAt, Idle, Places
<1> QED
  BY <1>11, <1>12, <1>13, <1>14

LEMMA RemoveKeeps ==
  ASSUME IInv, Remove
  PROVE  IInv'
<1> USE DEF IInv, settings, manager, rows, tester
<1> DEFINE rs == Existing
<1>1. rs \in SUBSET Runs /\ DeleteGrants(rs)
  BY DEF Remove, Existing
<1>2. /\ grants' \in [Runs -> Rows \cup {"none", "deleted"}]
      /\ closing' \subseteq Runs /\ silent' \subseteq Runs
      /\ \A x \in rs : grants'[x] = "deleted" /\ x \in closing' \cup silent'
      /\ \A x \in Runs \ rs : grants'[x] = grants[x]
      /\ closing \cup silent \subseteq closing' \cup silent'
  BY <1>1, Deletion
<1>11. TypeOK'
  BY <1>2 DEF Remove, TypeOK
<1>12. GrantsAreBacked'
  BY <1>2, <1>1 DEF Remove, GrantsAreBacked, Existing, Rows, Usable
<1>13. TestIsOfCurrentSettings'
  BY DEF Remove, TestIsOfCurrentSettings
<1>14. ClearedIsWatched'
  BY <1>2, <1>1 DEF Remove, ClearedIsWatched, CallAt, MyGrant, TypeOK, CallsAt, Idle, Places
<1> QED
  BY <1>11, <1>12, <1>13, <1>14

LEMMA BindKeeps ==
  ASSUME IInv, NEW on \in BOOLEAN, Bind(on)
  PROVE  IInv'
<1> USE DEF IInv, settings, manager, rows, tester
<1> DEFINE rs == IF on THEN {} ELSE Existing
<1>1. rs \in SUBSET Runs /\ DeleteGrants(rs)
  BY DEF Bind, Existing
<1>2. /\ grants' \in [Runs -> Rows \cup {"none", "deleted"}]
      /\ closing' \subseteq Runs /\ silent' \subseteq Runs
      /\ \A x \in rs : grants'[x] = "deleted" /\ x \in closing' \cup silent'
      /\ \A x \in Runs \ rs : grants'[x] = grants[x]
      /\ closing \cup silent \subseteq closing' \cup silent'
  BY <1>1, Deletion
<1>11. TypeOK'
  BY <1>2 DEF Bind, TypeOK
<1>12. GrantsAreBacked'
  BY <1>2, <1>1 DEF Bind, GrantsAreBacked, Existing, Rows, Usable
<1>13. TestIsOfCurrentSettings'
  BY DEF Bind, TestIsOfCurrentSettings
<1>14. ClearedIsWatched'
  BY <1>2, <1>1 DEF Bind, ClearedIsWatched, CallAt, MyGrant, TypeOK, CallsAt, Idle, Places
<1> QED
  BY <1>11, <1>12, <1>13, <1>14

LEMMA CloseGrantKeeps ==
  ASSUME IInv, NEW r \in Runs, CloseGrant(r)
  PROVE  IInv'
<1> USE DEF IInv, settings, manager, rows, tester
<1>1. {r} \in SUBSET Runs
  OBVIOUS
<1>11. TypeOK'
  BY <1>1, CallsWithoutType DEF CloseGrant, TypeOK
<1>12. GrantsAreBacked'
  BY DEF CloseGrant, GrantsAreBacked
<1>13. TestIsOfCurrentSettings'
  BY DEF CloseGrant, TestIsOfCurrentSettings
<1>14. ClearedIsWatched'
  BY <1>1, CallsWithoutCloses DEF CloseGrant, ClearedIsWatched, CallAt, MyGrant, Idle
<1> QED
  BY <1>11, <1>12, <1>13, <1>14

LEMMA CallAuthorizedKeeps ==
  ASSUME IInv, NEW k \in Calls, NEW r \in Runs, CallAuthorized(k, r)
  PROVE  IInv'
<1> USE DEF IInv, settings, manager, rows, tester
<1>11. TypeOK'
  BY DEF CallAuthorized, TypeOK, CallAt, MyGrant, CallsAt, Places, Idle
<1>12. GrantsAreBacked'
  BY DEF CallAuthorized, GrantsAreBacked
<1>13. TestIsOfCurrentSettings'
  BY DEF CallAuthorized, TestIsOfCurrentSettings
<1>14. ClearedIsWatched'
  BY DEF CallAuthorized, ClearedIsWatched, CallAt, MyGrant, CallsAt, Idle, Places, TypeOK
<1> QED
  BY <1>11, <1>12, <1>13, <1>14

LEMMA GetClientKeeps ==
  ASSUME IInv, NEW k \in Calls, GetClient(k)
  PROVE  IInv'
<1> USE DEF IInv, settings, manager, rows, tester
<1>1. calls[k] \in CallsAt(Places) /\ calls[k] # Idle /\ MyGrant(k) \in Runs
  BY BusyCall DEF GetClient, Places
<1>11. TypeOK'
  BY <1>1 DEF GetClient, TypeOK, Goto, Fail, CallAt, MyGrant, CallsAt, Places, Idle
<1>12. GrantsAreBacked'
  BY DEF GetClient, GrantsAreBacked
<1>13. TestIsOfCurrentSettings'
  BY DEF GetClient, TestIsOfCurrentSettings
<1>14. ClearedIsWatched'
  BY <1>1 DEF GetClient, ClearedIsWatched, Authorized, Usable, Goto, Fail, TypeOK, CallAt, MyGrant, CallsAt, Places, Idle
<1> QED
  BY <1>11, <1>12, <1>13, <1>14

LEMMA RecheckKeeps ==
  ASSUME IInv, NEW k \in Calls, Recheck(k)
  PROVE  IInv'
<1> USE DEF IInv, settings, manager, rows, tester
<1>1. calls[k] \in CallsAt(Places) /\ calls[k] # Idle /\ MyGrant(k) \in Runs
  BY BusyCall DEF Recheck, Places
<1>11. TypeOK'
  BY <1>1 DEF Recheck, TypeOK, Goto, Fail, CallAt, MyGrant, CallsAt, Places, Idle
<1>12. GrantsAreBacked'
  BY DEF Recheck, GrantsAreBacked
<1>13. TestIsOfCurrentSettings'
  BY DEF Recheck, TestIsOfCurrentSettings
<1>14. ClearedIsWatched'
  BY <1>1 DEF Recheck, ClearedIsWatched, Authorized, Usable, Goto, Fail, TypeOK, CallAt, MyGrant, CallsAt, Places, Idle
<1> QED
  BY <1>11, <1>12, <1>13, <1>14

LEMMA RefuseKeeps ==
  ASSUME IInv, NEW k \in Calls, Refuse(k)
  PROVE  IInv'
<1> USE DEF IInv, settings, manager, rows, tester
<1>1. calls[k] \in CallsAt(Places) /\ calls[k] # Idle /\ MyGrant(k) \in Runs
  BY BusyCall DEF Refuse, Places
<1>11. TypeOK'
  BY <1>1, CallsWithoutType DEF Refuse, TypeOK, Idle
<1>12. GrantsAreBacked'
  BY DEF Refuse, GrantsAreBacked
<1>13. TestIsOfCurrentSettings'
  BY DEF Refuse, TestIsOfCurrentSettings
<1>14. ClearedIsWatched'
  BY <1>1, CallsWithoutCloses DEF Refuse, ClearedIsWatched, CallAt, MyGrant, Idle
<1> QED
  BY <1>11, <1>12, <1>13, <1>14

LEMMA SendKeeps ==
  ASSUME IInv, NEW k \in Calls, Send(k)
  PROVE  IInv'
<1> USE DEF IInv, settings, manager, rows, tester
<1>1. calls[k] \in CallsAt(Places) /\ calls[k] # Idle /\ MyGrant(k) \in Runs
  BY BusyCall DEF Send, Places
<1>11. TypeOK'
  BY <1>1 DEF Send, TypeOK, Goto, Fail, CallAt, MyGrant, CallsAt, Places, Idle
<1>12. GrantsAreBacked'
  BY DEF Send, GrantsAreBacked
<1>13. TestIsOfCurrentSettings'
  BY DEF Send, TestIsOfCurrentSettings
<1>14. ClearedIsWatched'
  BY <1>1 DEF Send, ClearedIsWatched, Authorized, Usable, Goto, Fail, TypeOK, CallAt, MyGrant, CallsAt, Places, Idle
<1> QED
  BY <1>11, <1>12, <1>13, <1>14

LEMMA UpstreamEndsKeeps ==
  ASSUME IInv, NEW k \in Calls, UpstreamEnds(k)
  PROVE  IInv'
<1> USE DEF IInv, settings, manager, rows, tester
<1>1. calls[k] \in CallsAt(Places) /\ calls[k] # Idle /\ MyGrant(k) \in Runs
  BY BusyCall DEF UpstreamEnds, Places
<1>11. TypeOK'
  BY <1>1 DEF UpstreamEnds, TypeOK, Goto, Fail, CallAt, MyGrant, CallsAt, Places, Idle
<1>12. GrantsAreBacked'
  BY DEF UpstreamEnds, GrantsAreBacked
<1>13. TestIsOfCurrentSettings'
  BY DEF UpstreamEnds, TestIsOfCurrentSettings
<1>14. ClearedIsWatched'
  BY <1>1 DEF UpstreamEnds, ClearedIsWatched, Authorized, Usable, Goto, Fail, TypeOK, CallAt, MyGrant, CallsAt, Places, Idle
<1> QED
  BY <1>11, <1>12, <1>13, <1>14

LEMMA ConfirmKeeps ==
  ASSUME IInv, NEW k \in Calls, Confirm(k)
  PROVE  IInv'
<1> USE DEF IInv, settings, manager, rows, tester
<1>1. calls[k] \in CallsAt(Places) /\ calls[k] # Idle /\ MyGrant(k) \in Runs
  BY BusyCall DEF Confirm, Places
<1>11. TypeOK'
  BY <1>1 DEF Confirm, TypeOK, Goto, Fail, CallAt, MyGrant, CallsAt, Places, Idle
<1>12. GrantsAreBacked'
  BY DEF Confirm, GrantsAreBacked
<1>13. TestIsOfCurrentSettings'
  BY DEF Confirm, TestIsOfCurrentSettings
<1>14. ClearedIsWatched'
  BY <1>1 DEF Confirm, ClearedIsWatched, Authorized, Usable, Goto, Fail, TypeOK, CallAt, MyGrant, CallsAt, Places, Idle
<1> QED
  BY <1>11, <1>12, <1>13, <1>14

LEMMA CallEndsKeeps ==
  ASSUME IInv, NEW k \in Calls, CallEnds(k)
  PROVE  IInv'
<1> USE DEF IInv, settings, manager, rows, tester
<1>1. calls[k] \in CallsAt(Places) /\ calls[k] # Idle /\ MyGrant(k) \in Runs
  BY BusyCall DEF CallEnds, Places
<1>11. TypeOK'
  BY <1>1 DEF CallEnds, TypeOK, Goto, Fail, CallAt, MyGrant, CallsAt, Places, Idle
<1>12. GrantsAreBacked'
  BY DEF CallEnds, GrantsAreBacked
<1>13. TestIsOfCurrentSettings'
  BY DEF CallEnds, TestIsOfCurrentSettings
<1>14. ClearedIsWatched'
  BY <1>1 DEF CallEnds, ClearedIsWatched, Authorized, Usable, Goto, Fail, TypeOK, CallAt, MyGrant, CallsAt, Places, Idle
<1> QED
  BY <1>11, <1>12, <1>13, <1>14

LEMMA SweepBeginsKeeps ==
  ASSUME IInv, SweepBegins
  PROVE  IInv'
<1> USE DEF IInv, settings, manager, rows, tester
<1>11. TypeOK'
  BY DEF SweepBegins, TypeOK, Idle
<1>12. GrantsAreBacked'
  BY DEF SweepBegins, GrantsAreBacked
<1>13. TestIsOfCurrentSettings'
  BY DEF SweepBegins, TestIsOfCurrentSettings
<1>14. ClearedIsWatched'
  BY DEF SweepBegins, ClearedIsWatched, CallAt, MyGrant
<1> QED
  BY <1>11, <1>12, <1>13, <1>14

LEMMA SweepDeletesKeeps ==
  ASSUME IInv, SweepDeletes
  PROVE  IInv'
<1> USE DEF IInv, settings, manager, rows, tester
<1>1. /\ grants' \in [Runs -> Rows \cup {"none", "deleted"}]
      /\ closing' \subseteq Runs /\ silent' \subseteq Runs
      /\ \A x \in Expired : grants'[x] = "deleted" /\ x \in closing' \cup silent'
      /\ \A x \in Runs \ Expired : grants'[x] = grants[x]
      /\ closing \cup silent \subseteq closing' \cup silent'
  BY DEF SweepDeletes, Gone, Expired, TypeOK
<1>2. sweep' \in {Idle} \cup [at : {"select"}, cached : (SUBSET Runs) \ {{}}]
  <2>1. sweep \in [at : {"delete"}, cached : SUBSET Runs]
    BY DEF SweepDeletes, TypeOK, Idle
  <2>2. AfterDeletion \in {Idle} \cup [at : {"select"}, cached : (SUBSET Runs) \ {{}}]
    <3>1. sweep.cached \in SUBSET Runs
      BY <2>1
    <3>2. sweep.cached # {} => sweep.cached \in (SUBSET Runs) \ {{}}
      BY <3>1
    <3> QED
      BY <3>2 DEF AfterDeletion
  <2> QED
    BY <2>2 DEF SweepDeletes
<1>11. TypeOK'
  BY <1>1, <1>2 DEF SweepDeletes, TypeOK
<1>12. GrantsAreBacked'
  BY <1>1 DEF SweepDeletes, GrantsAreBacked, Expired, Rows, Usable
<1>13. TestIsOfCurrentSettings'
  BY DEF SweepDeletes, TestIsOfCurrentSettings
<1>14. ClearedIsWatched'
  BY <1>1 DEF SweepDeletes, ClearedIsWatched, CallAt, MyGrant, TypeOK, CallsAt, Idle, Places
<1> QED
  BY <1>11, <1>12, <1>13, <1>14

LEMMA SweepUnansweredKeeps ==
  ASSUME IInv, SweepUnanswered
  PROVE  IInv'
<1> USE DEF IInv, settings, manager, rows, tester
<1>1. /\ grants' \in [Runs -> Rows \cup {"none", "deleted"}]
      /\ closing' \subseteq Runs /\ silent' \subseteq Runs
      /\ \A x \in Expired : grants'[x] = "deleted" /\ x \in closing' \cup silent'
      /\ \A x \in Runs \ Expired : grants'[x] = grants[x]
      /\ closing \cup silent \subseteq closing' \cup silent'
  BY DEF SweepUnanswered, Gone, Expired, TypeOK
<1>11. TypeOK'
  BY <1>1 DEF SweepUnanswered, TypeOK
<1>12. GrantsAreBacked'
  BY <1>1 DEF SweepUnanswered, GrantsAreBacked, Expired, Rows, Usable
<1>13. TestIsOfCurrentSettings'
  BY DEF SweepUnanswered, TestIsOfCurrentSettings
<1>14. ClearedIsWatched'
  BY <1>1 DEF SweepUnanswered, ClearedIsWatched, CallAt, MyGrant, TypeOK, CallsAt, Idle, Places
<1> QED
  BY <1>11, <1>12, <1>13, <1>14

LEMMA SweepSelectsKeeps ==
  ASSUME IInv, SweepSelects
  PROVE  IInv'
<1> USE DEF IInv, settings, manager, rows, tester
<1>11. TypeOK'
  BY DEF SweepSelects, TypeOK, Idle, Existing
<1>12. GrantsAreBacked'
  BY DEF SweepSelects, GrantsAreBacked
<1>13. TestIsOfCurrentSettings'
  BY DEF SweepSelects, TestIsOfCurrentSettings
<1>14. ClearedIsWatched'
  BY DEF SweepSelects, ClearedIsWatched, CallAt, MyGrant
<1> QED
  BY <1>11, <1>12, <1>13, <1>14

LEMMA SweepFailsKeeps ==
  ASSUME IInv, SweepFails
  PROVE  IInv'
<1> USE DEF IInv, settings, manager, rows, tester
<1>11. TypeOK'
  BY DEF SweepFails, TypeOK
<1>12. GrantsAreBacked'
  BY DEF SweepFails, GrantsAreBacked
<1>13. TestIsOfCurrentSettings'
  BY DEF SweepFails, TestIsOfCurrentSettings
<1>14. ClearedIsWatched'
  BY DEF SweepFails, ClearedIsWatched, CallAt, MyGrant
<1> QED
  BY <1>11, <1>12, <1>13, <1>14

LEMMA TestBeginsKeeps ==
  ASSUME IInv, NEW t \in Tests, TestBegins(t)
  PROVE  IInv'
<1> USE DEF IInv, settings, manager, rows, tester
<1>11. TypeOK'
  BY DEF TestBegins, TypeOK
<1>12. GrantsAreBacked'
  BY DEF TestBegins, GrantsAreBacked
<1>13. TestIsOfCurrentSettings'
  BY DEF TestBegins, TestIsOfCurrentSettings
<1>14. ClearedIsWatched'
  BY DEF TestBegins, ClearedIsWatched, CallAt, MyGrant
<1> QED
  BY <1>11, <1>12, <1>13, <1>14

LEMMA TestLoadsKeeps ==
  ASSUME IInv, NEW t \in Tests, TestLoads(t)
  PROVE  IInv'
<1> USE DEF IInv, settings, manager, rows, tester
<1>11. TypeOK'
  BY DEF TestLoads, TypeOK
<1>12. GrantsAreBacked'
  BY DEF TestLoads, GrantsAreBacked
<1>13. TestIsOfCurrentSettings'
  BY DEF TestLoads, TestIsOfCurrentSettings
<1>14. ClearedIsWatched'
  BY DEF TestLoads, ClearedIsWatched, CallAt, MyGrant
<1> QED
  BY <1>11, <1>12, <1>13, <1>14

LEMMA TestEndsKeeps ==
  ASSUME IInv, NEW t \in Tests, TestEnds(t)
  PROVE  IInv'
<1> USE DEF IInv, settings, manager, rows, tester
<1>11. TypeOK'
  BY DEF TestEnds, TypeOK, SameRevision, Probing
<1>12. GrantsAreBacked'
  BY DEF TestEnds, GrantsAreBacked
<1>13. TestIsOfCurrentSettings'
  BY DEF TestEnds, TestIsOfCurrentSettings, SameRevision
<1>14. ClearedIsWatched'
  BY DEF TestEnds, ClearedIsWatched, CallAt, MyGrant
<1> QED
  BY <1>11, <1>12, <1>13, <1>14

LEMMA CrashKeeps ==
  ASSUME IInv, Crash
  PROVE  IInv'
<1> USE DEF IInv, settings, manager, rows, tester
<1>11. TypeOK'
  BY DEF Crash, TypeOK
<1>12. GrantsAreBacked'
  BY DEF Crash, GrantsAreBacked
<1>13. TestIsOfCurrentSettings'
  BY DEF Crash, TestIsOfCurrentSettings
<1>14. ClearedIsWatched'
  BY DEF Crash, ClearedIsWatched, CallAt, MyGrant, Idle
<1> QED
  BY <1>11, <1>12, <1>13, <1>14

LEMMA OnlySendSends ==
  ASSUME IInv, [Next]_vars, NEW k \in Calls, ~CallAt(k, "upstream"), CallAt(k, "upstream")'
  PROVE  Send(k)
<1> USE DEF CallAt, IInv
<1>1. CASE \E c \in Calls : CallStep(c)
  <2> PICK c \in Calls : CallStep(c)
    BY <1>1
  <2>1. CASE GetClient(c)
    <3>1. calls[c] \in CallsAt(Places)
      BY <2>1, BusyCall DEF GetClient, Places
    <3>2. c # k => calls'[k] = calls[k]
      BY <2>1 DEF GetClient, Goto, Fail, TypeOK
    <3>3. calls'[c].at # "upstream"
      BY <2>1, <3>1 DEF GetClient, Goto, Fail, TypeOK, CallsAt, Idle
    <3> QED
      BY <3>2, <3>3
  <2>2. CASE Recheck(c)
    <3>1. calls[c] \in CallsAt(Places)
      BY <2>2, BusyCall DEF Recheck, Places
    <3>2. c # k => calls'[k] = calls[k]
      BY <2>2 DEF Recheck, Goto, Fail, TypeOK
    <3>3. calls'[c].at # "upstream"
      BY <2>2, <3>1 DEF Recheck, Goto, Fail, TypeOK, CallsAt, Idle
    <3> QED
      BY <3>2, <3>3
  <2>3. CASE Refuse(c)
    <3>1. {MyGrant(c)} \in SUBSET Runs
      BY <2>3, BusyCall DEF Refuse, Places
    <3>2. calls'[k].at = calls[k].at \/ calls'[k] = Idle
      BY <2>3, <3>1, CallsWithoutCloses, CallsWithoutType DEF Refuse
    <3> QED
      BY <3>2 DEF Idle
  <2>4. CASE Send(c)
    <3>1. calls[c] \in CallsAt(Places)
      BY <2>4, BusyCall DEF Send, Places
    <3>2. c # k => calls'[k] = calls[k]
      BY <2>4 DEF Send, Goto, Fail, TypeOK
    <3> QED
      BY <2>4, <3>2
  <2>5. CASE UpstreamEnds(c)
    <3>1. calls[c] \in CallsAt(Places)
      BY <2>5, BusyCall DEF UpstreamEnds, Places
    <3>2. c # k => calls'[k] = calls[k]
      BY <2>5 DEF UpstreamEnds, Goto, Fail, TypeOK
    <3>3. calls'[c].at # "upstream"
      BY <2>5, <3>1 DEF UpstreamEnds, Goto, Fail, TypeOK, CallsAt, Idle
    <3> QED
      BY <3>2, <3>3
  <2>6. CASE Confirm(c)
    <3>1. calls[c] \in CallsAt(Places)
      BY <2>6, BusyCall DEF Confirm, Places
    <3>2. c # k => calls'[k] = calls[k]
      BY <2>6 DEF Confirm, Goto, Fail, TypeOK
    <3>3. calls'[c].at # "upstream"
      BY <2>6, <3>1 DEF Confirm, Goto, Fail, TypeOK, CallsAt, Idle
    <3> QED
      BY <3>2, <3>3
  <2>7. CASE CallEnds(c)
    <3>1. calls[c] \in CallsAt(Places)
      BY <2>7, BusyCall DEF CallEnds, Places
    <3>2. c # k => calls'[k] = calls[k]
      BY <2>7 DEF CallEnds, Goto, Fail, TypeOK
    <3>3. calls'[c].at # "upstream"
      BY <2>7, <3>1 DEF CallEnds, Goto, Fail, TypeOK, CallsAt, Idle
    <3> QED
      BY <3>2, <3>3
  <2> QED
    BY <2>1, <2>2, <2>3, <2>4, <2>5, <2>6, <2>7 DEF CallStep
<1>2. CASE \E c \in Calls, r \in Runs : CallAuthorized(c, r)
  BY <1>2 DEF CallAuthorized, TypeOK
<1>3. CASE \E r \in Runs : CloseGrant(r)
  BY <1>3, CallsWithoutCloses DEF CloseGrant
<1>4. CASE Crash
  BY <1>4 DEF Crash, Idle
<1>5. CASE UNCHANGED calls
  BY <1>5
<1> QED
  BY <1>1, <1>2, <1>3, <1>4, <1>5
     DEF Next, vars, RunBegins, RunEnds, Issue, Renew, Revoke, Age, Trash, Restore, Purge, Update, Remove, Bind, SweepBegins, SweepDeletes, SweepUnanswered, SweepSelects, SweepFails, TestBegins, TestLoads, TestEnds

LEMMA OnlyConfirmReturns ==
  ASSUME IInv, [Next]_vars, NEW k \in Calls, ~CallAt(k, "returned"), CallAt(k, "returned")'
  PROVE  Confirm(k)
<1> USE DEF CallAt, IInv
<1>1. CASE \E c \in Calls : CallStep(c)
  <2> PICK c \in Calls : CallStep(c)
    BY <1>1
  <2>1. CASE GetClient(c)
    <3>1. calls[c] \in CallsAt(Places)
      BY <2>1, BusyCall DEF GetClient, Places
    <3>2. c # k => calls'[k] = calls[k]
      BY <2>1 DEF GetClient, Goto, Fail, TypeOK
    <3>3. calls'[c].at # "returned"
      BY <2>1, <3>1 DEF GetClient, Goto, Fail, TypeOK, CallsAt, Idle
    <3> QED
      BY <3>2, <3>3
  <2>2. CASE Recheck(c)
    <3>1. calls[c] \in CallsAt(Places)
      BY <2>2, BusyCall DEF Recheck, Places
    <3>2. c # k => calls'[k] = calls[k]
      BY <2>2 DEF Recheck, Goto, Fail, TypeOK
    <3>3. calls'[c].at # "returned"
      BY <2>2, <3>1 DEF Recheck, Goto, Fail, TypeOK, CallsAt, Idle
    <3> QED
      BY <3>2, <3>3
  <2>3. CASE Refuse(c)
    <3>1. {MyGrant(c)} \in SUBSET Runs
      BY <2>3, BusyCall DEF Refuse, Places
    <3>2. calls'[k].at = calls[k].at \/ calls'[k] = Idle
      BY <2>3, <3>1, CallsWithoutCloses, CallsWithoutType DEF Refuse
    <3> QED
      BY <3>2 DEF Idle
  <2>4. CASE Send(c)
    <3>1. calls[c] \in CallsAt(Places)
      BY <2>4, BusyCall DEF Send, Places
    <3>2. c # k => calls'[k] = calls[k]
      BY <2>4 DEF Send, Goto, Fail, TypeOK
    <3>3. calls'[c].at # "returned"
      BY <2>4, <3>1 DEF Send, Goto, Fail, TypeOK, CallsAt, Idle
    <3> QED
      BY <3>2, <3>3
  <2>5. CASE UpstreamEnds(c)
    <3>1. calls[c] \in CallsAt(Places)
      BY <2>5, BusyCall DEF UpstreamEnds, Places
    <3>2. c # k => calls'[k] = calls[k]
      BY <2>5 DEF UpstreamEnds, Goto, Fail, TypeOK
    <3>3. calls'[c].at # "returned"
      BY <2>5, <3>1 DEF UpstreamEnds, Goto, Fail, TypeOK, CallsAt, Idle
    <3> QED
      BY <3>2, <3>3
  <2>6. CASE Confirm(c)
    <3>1. calls[c] \in CallsAt(Places)
      BY <2>6, BusyCall DEF Confirm, Places
    <3>2. c # k => calls'[k] = calls[k]
      BY <2>6 DEF Confirm, Goto, Fail, TypeOK
    <3> QED
      BY <2>6, <3>2
  <2>7. CASE CallEnds(c)
    <3>1. calls[c] \in CallsAt(Places)
      BY <2>7, BusyCall DEF CallEnds, Places
    <3>2. c # k => calls'[k] = calls[k]
      BY <2>7 DEF CallEnds, Goto, Fail, TypeOK
    <3>3. calls'[c].at # "returned"
      BY <2>7, <3>1 DEF CallEnds, Goto, Fail, TypeOK, CallsAt, Idle
    <3> QED
      BY <3>2, <3>3
  <2> QED
    BY <2>1, <2>2, <2>3, <2>4, <2>5, <2>6, <2>7 DEF CallStep
<1>2. CASE \E c \in Calls, r \in Runs : CallAuthorized(c, r)
  BY <1>2 DEF CallAuthorized, TypeOK
<1>3. CASE \E r \in Runs : CloseGrant(r)
  BY <1>3, CallsWithoutCloses DEF CloseGrant
<1>4. CASE Crash
  BY <1>4 DEF Crash, Idle
<1>5. CASE UNCHANGED calls
  BY <1>5
<1> QED
  BY <1>1, <1>2, <1>3, <1>4, <1>5
     DEF Next, vars, RunBegins, RunEnds, Issue, Renew, Revoke, Age, Trash, Restore, Purge, Update, Remove, Bind, SweepBegins, SweepDeletes, SweepUnanswered, SweepSelects, SweepFails, TestBegins, TestLoads, TestEnds

LEMMA StepIInv == IInv /\ [Next]_vars => IInv'
<1> SUFFICES ASSUME IInv, [Next]_vars PROVE IInv'
  OBVIOUS
<1>1. CASE \E r \in Runs : RunBegins(r)
  BY <1>1, RunBeginsKeeps
<1>2. CASE \E r \in Runs : RunEnds(r)
  BY <1>2, RunEndsKeeps
<1>3. CASE \E r \in Runs : Issue(r)
  BY <1>3, IssueKeeps
<1>4. CASE \E r \in Runs : Renew(r)
  BY <1>4, RenewKeeps
<1>5. CASE \E r \in Runs : Revoke(r)
  BY <1>5, RevokeKeeps
<1>6. CASE \E r \in Runs : Age(r)
  BY <1>6, AgeKeeps
<1>7. CASE Trash
  BY <1>7, TrashKeeps
<1>8. CASE Restore
  BY <1>8, RestoreKeeps
<1>9. CASE Purge
  BY <1>9, PurgeKeeps
<1>10. CASE \E state \in {"on", "off"} : Update(state)
  BY <1>10, UpdateKeeps
<1>11. CASE Remove
  BY <1>11, RemoveKeeps
<1>12. CASE \E on \in BOOLEAN : Bind(on)
  BY <1>12, BindKeeps
<1>13. CASE \E r \in Runs : CloseGrant(r)
  BY <1>13, CloseGrantKeeps
<1>14. CASE \E k \in Calls : \E r \in Runs : CallAuthorized(k, r)
  BY <1>14, CallAuthorizedKeeps
<1>15. CASE \E k \in Calls : GetClient(k)
  BY <1>15, GetClientKeeps
<1>16. CASE \E k \in Calls : Recheck(k)
  BY <1>16, RecheckKeeps
<1>17. CASE \E k \in Calls : Refuse(k)
  BY <1>17, RefuseKeeps
<1>18. CASE \E k \in Calls : Send(k)
  BY <1>18, SendKeeps
<1>19. CASE \E k \in Calls : UpstreamEnds(k)
  BY <1>19, UpstreamEndsKeeps
<1>20. CASE \E k \in Calls : Confirm(k)
  BY <1>20, ConfirmKeeps
<1>21. CASE \E k \in Calls : CallEnds(k)
  BY <1>21, CallEndsKeeps
<1>22. CASE SweepBegins
  BY <1>22, SweepBeginsKeeps
<1>23. CASE SweepDeletes
  BY <1>23, SweepDeletesKeeps
<1>24. CASE SweepUnanswered
  BY <1>24, SweepUnansweredKeeps
<1>25. CASE SweepSelects
  BY <1>25, SweepSelectsKeeps
<1>26. CASE SweepFails
  BY <1>26, SweepFailsKeeps
<1>27. CASE \E t \in Tests : TestBegins(t)
  BY <1>27, TestBeginsKeeps
<1>28. CASE \E t \in Tests : TestLoads(t)
  BY <1>28, TestLoadsKeeps
<1>29. CASE \E t \in Tests : TestEnds(t)
  BY <1>29, TestEndsKeeps
<1>30. CASE Crash
  BY <1>30, CrashKeeps
<1>0. CASE UNCHANGED vars
  <2> USE <1>0 DEF vars, settings, manager, rows, tester
  <2>1. TypeOK'
    BY DEF IInv, TypeOK
  <2>2. GrantsAreBacked' /\ TestIsOfCurrentSettings'
    BY DEF IInv, GrantsAreBacked, TestIsOfCurrentSettings
  <2>3. ClearedIsWatched'
    BY DEF IInv, ClearedIsWatched, CallAt, MyGrant
  <2> QED
    BY <2>1, <2>2, <2>3 DEF IInv
<1> QED
  BY <1>0, <1>1, <1>2, <1>3, <1>4, <1>5, <1>6, <1>7, <1>8, <1>9, <1>10, <1>11, <1>12, <1>13, <1>14, <1>15, <1>16, <1>17, <1>18, <1>19, <1>20, <1>21, <1>22, <1>23, <1>24, <1>25, <1>26, <1>27, <1>28, <1>29, <1>30 DEF Next, CallStep
-----------------------------------------------------------------------------
\* The inductive invariant, from which the results below follow.
THEOREM GrantsInvariant == Spec => []IInv
<1> QED
  BY InitIInv, StepIInv, PTL DEF Spec

\* Type correctness of the gateway.
THEOREM GrantsTypeCorrect == Spec => []TypeOK
<1>1. IInv => TypeOK
  BY DEF IInv
<1> QED
  BY <1>1, GrantsInvariant, PTL

\* Every grant row, even an expired one, rests on an enabled connection that the
\* workspace is bound to (update, remove, bind and issue of store.ts).
THEOREM GrantsRestOnSettings == Spec => []GrantsAreBacked
<1>1. IInv => GrantsAreBacked
  BY DEF IInv
<1> QED
  BY <1>1, GrantsInvariant, PTL

\* The tools that are listed belong to the current settings (testResult of store.ts).
THEOREM TestsAreCurrent == Spec => []TestIsOfCurrentSettings
<1>1. IInv => TestIsOfCurrentSettings
  BY DEF IInv
<1> QED
  BY <1>1, GrantsInvariant, PTL

\* No request is sent for a grant after the revocation closed its client, however
\* checkedClient, closeGrants and the transactions interleave.
THEOREM RevocationStopsRequests == Spec => NoRequestAfterRevocation
<1> DEFINE Sends == \A k \in Calls :
       ~CallAt(k, "upstream") /\ CallAt(k, "upstream")' /\ grants[MyGrant(k)] = "deleted"
         => MyGrant(k) \in closing \cup silent
<1>1. ASSUME IInv, [Next]_vars PROVE [Sends]_vars
  <2> SUFFICES ASSUME NEW k \in Calls, ~CallAt(k, "upstream"), CallAt(k, "upstream")',
                     grants[MyGrant(k)] = "deleted"
               PROVE  MyGrant(k) \in closing \cup silent
    OBVIOUS
  <2>1. Send(k)
    BY <1>1, OnlySendSends
  <2> QED
    BY <1>1, <2>1 DEF Send, Fail, CallAt, Idle, IInv, ClearedIsWatched, TypeOK
<1> QED
  BY <1>1, GrantsInvariant, PTL DEF Spec, NoRequestAfterRevocation

\* No result of a call whose grant is gone, or whose workspace was trashed, is
\* returned (the last authorize of the tools/call handler of server.ts).
THEOREM LateResultsAreDropped == Spec => NoLateResult
<1> DEFINE Returns == \A k \in Calls :
       ~CallAt(k, "returned") /\ CallAt(k, "returned")'
         => /\ grants[MyGrant(k)] # "deleted"
            /\ connection = "on" /\ workspace = "open"
<1>1. ASSUME IInv, [Next]_vars PROVE [Returns]_vars
  <2> SUFFICES ASSUME NEW k \in Calls, ~CallAt(k, "returned"), CallAt(k, "returned")'
               PROVE  Authorized(MyGrant(k))
    BY DEF Authorized, Usable
  <2>1. Confirm(k)
    BY <1>1, OnlyConfirmReturns
  <2> QED
    BY <1>1, <2>1 DEF Confirm, Fail, CallAt, Idle, IInv, TypeOK
<1> QED
  BY <1>1, GrantsInvariant, PTL DEF Spec, NoLateResult

=============================================================================
