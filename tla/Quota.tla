------------------------------- MODULE Quota -------------------------------
(***************************************************************************)
(* Cached quota windows and the eligibility of an account                  *)
(* (internal/accounts/rotation.go, internal/accounts/quota_reset.go).      *)
(*                                                                         *)
(* A window is the code's RateLimitWindow: whether requests are allowed,   *)
(* whether the limit is reached, the percentage used and the instant it    *)
(* resets, the last two optional.  None stands for a nil pointer.  The     *)
(* code-review window and the credits never influence routing and are left *)
(* out.                                                                    *)
(***************************************************************************)
EXTENDS Integers

CONSTANT None     \* a nil pointer, an absent value

Instants == Nat

Percents == 0..100

Window == [allowed: BOOLEAN, limitReached: BOOLEAN,
           used: Percents \cup {None}, reset: Instants \cup {None}]

\* The secondary window is a pointer in the code, the primary one is not.
Snapshot == [primary: Window, secondary: Window \cup {None}]

ASSUME NoneAssumption == None \notin Int /\ None \notin Window /\ None \notin Snapshot

----------------------------------------------------------------------------
(* Expiry of a window: a reset that is not in the future clears it.        *)

WindowExpired(window, now) ==
  /\ window # None
  /\ window.reset # None
  /\ window.reset <= now

NormalizeWindow(window, now) ==
  IF WindowExpired(window, now)
  THEN [allowed |-> TRUE, limitReached |-> FALSE, used |-> None, reset |-> None]
  ELSE window

NormalizeSnapshot(quota, now) ==
  IF quota = None
  THEN None
  ELSE [primary   |-> NormalizeWindow(quota.primary, now),
        secondary |-> NormalizeWindow(quota.secondary, now)]

----------------------------------------------------------------------------
(* What a cached snapshot says of general routing.                         *)

\* No reset means blocked until something else is observed.
StillRunning(window, now) ==
  window.reset = None \/ window.reset > now

AvailabilityBlocked(window, now) ==
  ~window.allowed /\ StillRunning(window, now)

LimitActive(window, now) ==
  /\ window # None
  /\ window.limitReached
  /\ StillRunning(window, now)

\* Fault: the secondary window is not looked at.
PrimaryBlocks(quota, now) ==
  /\ quota # None
  /\ AvailabilityBlocked(quota.primary, now) \/ LimitActive(quota.primary, now)

QuotaBlocks(quota, now) ==
  /\ quota # None
  /\ \/ AvailabilityBlocked(quota.primary, now)
     \/ LimitActive(quota.primary, now)
     \/ LimitActive(quota.secondary, now)

\* The future reset of a window that blocks, None when there is none.
ActiveReset(window, now) ==
  IF /\ window # None
     /\ window.reset # None
     /\ window.reset > now
     /\ ~window.allowed \/ window.limitReached
  THEN window.reset
  ELSE None

PrimaryReset(quota, now) ==
  IF quota = None THEN None ELSE ActiveReset(quota.primary, now)

QuotaReset(quota, now) ==
  IF quota = None
  THEN None
  ELSE IF ActiveReset(quota.primary, now) # None
       THEN ActiveReset(quota.primary, now)
       ELSE ActiveReset(quota.secondary, now)

----------------------------------------------------------------------------
(* The order least_used ranks snapshots in: primary percentage, then       *)
(* secondary percentage when both have one, then primary reset when both   *)
(* have one.  A tie is neither before the other.                           *)

HasSecondary(quota) ==
  quota.secondary # None /\ quota.secondary.used # None

SecondaryTied(a, b) ==
  HasSecondary(a) /\ HasSecondary(b) => a.secondary.used = b.secondary.used

LessUsed(a, b) ==
  \/ a.primary.used < b.primary.used
  \/ /\ a.primary.used = b.primary.used
     /\ HasSecondary(a) /\ HasSecondary(b)
     /\ a.secondary.used < b.secondary.used
  \/ /\ a.primary.used = b.primary.used
     /\ SecondaryTied(a, b)
     /\ a.primary.reset # None /\ b.primary.reset # None
     /\ a.primary.reset < b.primary.reset

=============================================================================
