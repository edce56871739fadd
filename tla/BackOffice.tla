------------------------------- MODULE BackOffice -------------------------------
(***************************************************************************)
(* What the console works on.  The settings, the roster and the lists      *)
(* share no state, so a behaviour is about one of them.                    *)
(***************************************************************************)
EXTENDS Settings

CONSTANTS Requests, Papers, LastDay, UrgentDays, SoonDays, WindowDays, NoProfile,
          Times, Ids, PageSize

ASSUME OfficeAssumption ==
  /\ LastDay \in Nat \ {0}
  /\ UrgentDays \in Nat /\ SoonDays \in Nat /\ WindowDays \in Nat
  /\ UrgentDays <= SoonDays /\ SoonDays <= WindowDays
  /\ Times \subseteq Nat \ {0} /\ Ids \subseteq Nat \ {0}
  /\ IsFiniteSet(Times) /\ IsFiniteSet(Ids) /\ PageSize \in Nat \ {0}

VARIABLES part, profile, owed, day, work, session, rows, cursor, shown, steady

R == INSTANCE Roster
Pg == INSTANCE Listing

ASSUME ProfileAssumption == NoProfile \notin R!Profile

officeVars == <<settingVars, part, profile, owed, day, work, session,
                rows, cursor, shown, steady>>

OfficeInit ==
  /\ part \in {"settings", "roster", "listing"}
  /\ SettingInit /\ (part # "settings" => group = "wallet")
  /\ R!RosterInit /\ (part # "roster" => profile = NoProfile)
  /\ Pg!ListingInit /\ (part # "listing" => \A r \in DOMAIN rows : rows[r] = "absent")

OfficeNext ==
  /\ \/ /\ part = "settings" /\ SettingNext
        /\ UNCHANGED <<profile, owed, day, work, session, rows, cursor, shown, steady>>
     \/ /\ part = "roster" /\ R!RosterNext
        /\ UNCHANGED <<settingVars, rows, cursor, shown, steady>>
     \/ /\ part = "listing" /\ Pg!ListingNext
        /\ UNCHANGED <<settingVars, profile, owed, day, work, session>>
  /\ UNCHANGED part

OfficeFairness ==
  \A p \in Pods :
    /\ WF_settingVars(part = "settings" /\ Current(p))
    /\ WF_settingVars(\E l \in loads : l.pod = p /\ Reload(l))

OfficeSpec == OfficeInit /\ [][OfficeNext]_officeVars /\ OfficeFairness

-------------------------------------------------------------------------------
OfficeTypeOK == SettingTypeOK /\ R!RosterTypeOK /\ Pg!ListingTypeOK

\* Nobody goes online or is taken for a trip on a profile that has been rejected,
\* or given older dates, since the request looked at it (driver/service.go:
\* GoOnline and Reserve read, look and compare-and-swap in separate statements).
StandsOnCurrentProfile == R!StandsOnCurrentProfile

\* The two counts on the overview, in SQL and in memory, the level the console
\* shows and the reason the driver is given all say the same of the papers.
CountsMatchGate == R!CountsMatchGate

\* Turning the pages of a list shows no row twice, and by the last page every row
\* that was there and kept matching has been shown (page.go, admin/service.go).
PagesComplete == Pg!PagesComplete
===============================================================================
