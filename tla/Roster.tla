--------------------------------- MODULE Roster ---------------------------------
(***************************************************************************)
(* A driver's profile (internal/driver) and what the console does to it    *)
(* (internal/admin): registration, review, the dates of the papers, going  *)
(* on- and offline, and the reservation for a trip.  Every request reads   *)
(* the row and writes it later: Update without a condition, UpdateStatus   *)
(* by compare-and-swap.  Papers expire when their day has passed.          *)
(***************************************************************************)
EXTENDS Naturals, Integers, FiniteSets, FiniteSetsExt

CONSTANTS
  Requests,     \* requests for this driver, numbered as they come
  Papers,       \* insurance, licence, inspection
  LastDay,      \* days 1 .. LastDay
  UrgentDays,   \* papers that end within so many days are urgent (7)
  SoonDays,     \* ... soon (15)
  WindowDays,   \* ... noticed at all (30)
  NoProfile     \* the account has not registered

VARIABLES
  profile,   \* the row of drivers
  owed,      \* the ledger says the driver owes more than the limit
  day,       \* today in Vietnam
  work,      \* request -> what it is and how far it is
  session    \* the tokens of the account are accepted

rosterVars == <<profile, owed, day, work, session>>

Days == 1 .. LastDay
Date == 0 .. LastDay + 1        \* 0: the paper has no date
Registered == profile # NoProfile

-------------------------------------------------------------------------------
(* The papers: Alerts, and the counts that have to agree with it.          *)

DaysLeft(until, p, today) == until[p] - today

AlertLevel(days) ==
  CASE days < 0 -> "expired"
    [] days >= 0 /\ days <= UrgentDays -> "urgent"
    [] days > UrgentDays /\ days <= SoonDays -> "soon"
    [] OTHER -> "notice"

\* Papers without a date and those that end later are left out.
Alerted(until, today) ==
  {p \in Papers : until[p] # 0 /\ DaysLeft(until, p, today) <= WindowDays}

Alerts(until, today) ==
  {[paper |-> p, level |-> AlertLevel(DaysLeft(until, p, today))] : p \in Alerted(until, today)}

Expired(until, today) == \E a \in Alerts(until, today) : a.level = "expired"

\* Mutant: the day written on a paper is already counted as past.
CountedExpiredEarly(until, today) ==
  /\ \E p \in Papers : until[p] # 0
  /\ Min({until[p] : p \in {q \in Papers : until[q] # 0}}) <= today

\* Counts in SQL: LEAST of the dates, which skips those that are NULL.
CountedExpired(until, today) ==
  /\ \E p \in Papers : until[p] # 0
  /\ Min({until[p] : p \in {q \in Papers : until[q] # 0}}) < today

CountedExpiring(until, today) ==
  /\ \E p \in Papers : until[p] # 0
  /\ Min({until[p] : p \in {q \in Papers : until[q] # 0}}) \in today .. today + UrgentDays

\* Counts in memory: the level of the first alert, the most pressing one.
FirstLevel(until, today) ==
  IF Alerted(until, today) = {} THEN "none"
  ELSE AlertLevel(Min({DaysLeft(until, p, today) : p \in Alerted(until, today)}))

\* CanAcceptTrip: the reason a driver gets no trip, in the order of the code.
Blocked(d, debt, today) ==
  CASE d.kyc # "APPROVED" -> "kyc_not_approved"
    [] d.kyc = "APPROVED" /\ Expired(d.until, today) -> "documents_expired"
    [] d.kyc = "APPROVED" /\ ~Expired(d.until, today) /\ d.status = "OFFLINE" -> "driver_offline"
    [] d.kyc = "APPROVED" /\ ~Expired(d.until, today) /\ d.status = "ASSIGNED" -> "driver_busy"
    [] OTHER -> IF debt THEN "wallet_debt_exceeded" ELSE "nothing"

-------------------------------------------------------------------------------
\* An account without a profile, or a driver who has been approved.
RosterInit ==
  /\ profile \in {NoProfile} \cup
       [kyc : {"APPROVED"}, until : [Papers -> {LastDay}], debt : {FALSE},
        status : {"OFFLINE", "IDLE"}, version : {0}]
  /\ owed = FALSE /\ day = 1
  /\ work = [r \in Requests |-> [step |-> "new"]]
  /\ session = TRUE

MayGoOnline(d) ==
  d.kyc = "APPROVED" /\ ~Expired(d.until, day) /\ d.status = "OFFLINE"

\* The request reads the row and looks at it.
Begin(r, job) ==
  /\ work[r].step = "new" /\ \A q \in Requests : q < r => work[q].step # "new"
  /\ work' = [work EXCEPT ![r] =
       CASE job \in {"approve", "reject", "renew"} ->
              [step |-> "read", job |-> job, kyc |-> profile.kyc,
               until |-> profile.until, debt |-> profile.debt]
         [] \/ job = "online" /\ MayGoOnline(profile)
            \/ job = "offline" /\ profile.status = "IDLE"
            \/ job = "reserve" /\ Blocked(profile, owed, day) = "nothing" ->
              [step |-> "allowed", job |-> job, status |-> profile.status,
               version |-> profile.version, day |-> day]
         [] OTHER -> [step |-> "left"]]
  /\ UNCHANGED <<profile, owed, day, session>>

OperatorBegins(r) ==
  Registered /\ \E job \in {"approve", "reject", "renew"} : Begin(r, job)

\* Reserve asks the ledger for the balance, and is the last to look.
DriverBegins(r) ==
  Registered /\ session /\ \E job \in {"online", "offline", "reserve"} : Begin(r, job)

Reading(r, jobs) == work[r].step = "read" /\ work[r].job \in jobs
Leave(r) == work' = [work EXCEPT ![r] = [step |-> "left"]]

\* Onboard: one profile per account, the second insert is refused.
Onboard(r, until) ==
  /\ work[r].step = "new" /\ \A q \in Requests : q < r => work[q].step # "new"
  /\ ~Registered
  /\ profile' = [kyc |-> "PENDING", until |-> until, debt |-> FALSE,
                 status |-> "OFFLINE", version |-> 0]
  /\ Leave(r)
  /\ UNCHANGED <<owed, day, session>>

\* Update writes review, dates and cached balance as they were read, whoever
\* wrote them since.
Update(r, kyc, until) ==
  profile' = [profile EXCEPT !.kyc = kyc, !.until = until, !.debt = work[r].debt,
                             !.version = @ + 1]

\* Mutant: Update leaves the version as it is.
ReviewUnversioned(r) ==
  /\ Reading(r, {"approve", "reject"})
  /\ profile' = [profile EXCEPT
       !.kyc = IF work[r].job = "approve" THEN "APPROVED" ELSE "REJECTED",
       !.until = work[r].until, !.debt = work[r].debt]
  /\ work' = [work EXCEPT ![r] = [step |-> "saved", job |-> @.job]]
  /\ UNCHANGED <<owed, day, session>>

ReviewKYC(r) ==
  /\ Reading(r, {"approve", "reject"})
  /\ Update(r, IF work[r].job = "approve" THEN "APPROVED" ELSE "REJECTED", work[r].until)
  /\ work' = [work EXCEPT ![r] = [step |-> "saved", job |-> @.job]]
  /\ UNCHANGED <<owed, day, session>>

\* The only way to new dates, and an operator has looked at the paper.
UpdateDocumentDates(r, p, until) ==
  /\ Reading(r, {"renew"})
  /\ Update(r, work[r].kyc, [work[r].until EXCEPT ![p] = until])
  /\ work' = [work EXCEPT ![r] = [step |-> "saved", job |-> @.job]]
  /\ UNCHANGED <<owed, day, session>>

\* A rejection ends the sessions before it is recorded.
RevokeAccount(r) ==
  /\ work[r].step = "saved" /\ work[r].job = "reject"
  /\ session' = FALSE
  /\ work' = [work EXCEPT ![r] = [step |-> "revoked", job |-> "reject"]]
  /\ UNCHANGED <<profile, owed, day>>

\* The entry in the audit log is the last thing a change does.
Record(r) ==
  /\ \/ work[r].step = "saved" /\ work[r].job # "reject"
     \/ work[r].step = "revoked"
  /\ work' = [work EXCEPT ![r] = [step |-> "recorded", job |-> @.job]]
  /\ UNCHANGED <<profile, owed, day, session>>

\* The operator is told of the error; the profile stays as it was written.
FailAfterSave(r) ==
  /\ work[r].step \in {"saved", "revoked"}
  /\ Leave(r)
  /\ UNCHANGED <<profile, owed, day, session>>

\* After a new code by SMS the driver has a new token.
SignIn ==
  /\ ~session
  /\ session' = TRUE
  /\ UNCHANGED <<profile, owed, day, work>>

-------------------------------------------------------------------------------
(* The driver.                                                             *)

\* UpdateStatus: nothing happens unless status and version are as they were read.
UpdateStatus(r, from, to) ==
  /\ IF work[r].status = from /\ profile.status = from /\ profile.version = work[r].version
     THEN profile' = [profile EXCEPT !.status = to, !.version = @ + 1]
     ELSE UNCHANGED profile
  /\ Leave(r)
  /\ UNCHANGED <<owed, day, session>>

Allowed(r, job) == work[r].step = "allowed" /\ work[r].job = job

GoOnline(r) == Allowed(r, "online") /\ UpdateStatus(r, "OFFLINE", "IDLE")
GoOffline(r) == Allowed(r, "offline") /\ UpdateStatus(r, "IDLE", "OFFLINE")
Reserve(r) == Allowed(r, "reserve") /\ UpdateStatus(r, "IDLE", "ASSIGNED")

\* The trip ends; what else it does to the status is in DriverStatus.
Free ==
  /\ Registered /\ profile.status = "ASSIGNED"
  /\ profile' = [profile EXCEPT !.status = "IDLE", !.version = @ + 1]
  /\ UNCHANGED <<owed, day, work, session>>

\* A posting takes the driver over the limit.
PostEntry ==
  /\ Registered /\ ~owed
  /\ owed' = TRUE
  /\ UNCHANGED <<profile, day, work, session>>

\* The cached balance does not touch the version.
SyncWalletBalance ==
  /\ Registered /\ profile.debt # owed
  /\ profile' = [profile EXCEPT !.debt = owed]
  /\ UNCHANGED <<owed, day, work, session>>

NextDay ==
  /\ day < LastDay
  /\ day' = day + 1
  /\ UNCHANGED <<profile, owed, work, session>>

RosterNext ==
  \/ \E r \in Requests :
       \/ OperatorBegins(r) \/ DriverBegins(r)
       \/ \E until \in [Papers -> Date] : Onboard(r, until)
       \/ \E p \in Papers, until \in Date : UpdateDocumentDates(r, p, until)
       \/ ReviewKYC(r) \/ RevokeAccount(r) \/ Record(r) \/ FailAfterSave(r)
       \/ GoOnline(r) \/ GoOffline(r) \/ Reserve(r)
  \/ SignIn \/ Free \/ PostEntry \/ SyncWalletBalance \/ NextDay

RosterSpec == RosterInit /\ [][RosterNext]_rosterVars

-------------------------------------------------------------------------------
Profile ==
  [kyc : {"PENDING", "APPROVED", "REJECTED"}, until : [Papers -> Date], debt : BOOLEAN,
   status : {"OFFLINE", "IDLE", "ASSIGNED"}, version : Nat]

WorkState ==
  [step : {"new", "left"}]
    \cup [step : {"read"}, job : {"approve", "reject", "renew"},
          kyc : {"PENDING", "APPROVED", "REJECTED"}, until : [Papers -> Date], debt : BOOLEAN]
    \cup [step : {"saved", "revoked", "recorded"}, job : {"approve", "reject", "renew"}]
    \cup [step : {"allowed"}, job : {"online", "offline", "reserve"},
          status : {"OFFLINE", "IDLE"}, version : Nat, day : Days]

RosterTypeOK ==
  /\ profile \in Profile \cup {NoProfile}
  /\ owed \in BOOLEAN /\ day \in Days /\ session \in BOOLEAN
  /\ work \in [Requests -> WorkState]

\* Nobody goes online or is taken for a trip on a profile that has been rejected,
\* or given older dates, since the request looked at it: at the moment the
\* status changes the row is approved and in date on the day of the request.
StandsOnCurrentProfile ==
  [][\A r \in Requests :
       ( /\ work[r].step = "allowed" /\ work'[r].step = "left"
         /\ work[r].job \in {"online", "reserve"} /\ profile' # profile )
       => profile.kyc = "APPROVED" /\ ~Expired(profile.until, work[r].day)]_rosterVars

\* The two counts on the overview, the level the console shows first and the
\* reason the driver is given all say the same of the papers.
CountsMatchGate ==
  Registered /\ profile.kyc = "APPROVED" =>
    /\ CountedExpired(profile.until, day) <=> FirstLevel(profile.until, day) = "expired"
    /\ CountedExpiring(profile.until, day) <=> FirstLevel(profile.until, day) = "urgent"
    /\ CountedExpired(profile.until, day) <=>
         Blocked(profile, owed, day) = "documents_expired"
===============================================================================
