---------------------------- MODULE MCPageClaims ----------------------------
(***************************************************************************)
(* What a comment says of a page and the page does not do.  Each claim is  *)
(* violated on its own page; see the README for the comment and the        *)
(* behaviour that breaks it.  To check one, name its specification and the *)
(* claim in PageClaims.cfg: an INVARIANT, or a PROPERTY where the          *)
(* definition is an action property.  AuditLogClaims.cfg has more sections *)
(* and edits of the audit log.                                             *)
(***************************************************************************)
EXTENDS MCPages

UsersSpec    == mounted = "users" /\ PagesSpec
AccessSpec   == mounted = "access" /\ PagesSpec
PoliciesSpec == mounted = "policies" /\ PagesSpec
SelfSpec     == mounted = "self" /\ PagesSpec
SettingsSpec == mounted = "settings" /\ PagesSpec
LinksSpec    == mounted = "links" /\ PagesSpec
AuditSpec    == mounted = "audit" /\ PagesSpec
LimitsSpec   == mounted = "limits" /\ PagesSpec

(* UsersSpec: an invariant; see UsersPage.                                   *)
SelectAllMatchesFilters == Users!SelectAllMatchesFilters
(* UsersSpec: an invariant; see UsersPage.                                   *)
OwnChangesShowEverywhere == Users!OwnChangesShowEverywhere

(* AccessSpec: an invariant; see AccessDialog.                               *)
AccessAlwaysSettles == Access!AccessAlwaysSettles
(* AccessSpec: an invariant; see AccessDialog.                               *)
LoadingToastsEnd == Access!LoadingToastsEnd

(* PoliciesSpec: an invariant; see PoliciesPage.                             *)
StatusIsTrue == Policies!StatusIsTrue
(* PoliciesSpec: an invariant; see PoliciesPage.                             *)
ActionsMatchType == Policies!ActionsMatchType
(* PoliciesSpec: an action property; see PoliciesPage.                       *)
OneActionPerClick == Policies!OneActionPerClick
(* PoliciesSpec: an action property; see PoliciesPage.                       *)
UnsavedTextIsNoticed == Policies!UnsavedTextIsNoticed

(* SelfSpec: an invariant; see SelfService.                                  *)
ParkedIsNotLost == Tables!ParkedIsNotLost
(* SelfSpec: an action property; see SelfService.                            *)
CancelledIsDropped == Tables!CancelledIsDropped
(* SelfSpec: an action property; see SelfService.                            *)
UnchangedNameSavesNothing == Tables!UnchangedNameSavesNothing

(* SettingsSpec: an invariant; see AccountSettings.                          *)
StripMatchesPanel == Settings!StripMatchesPanel
(* SettingsSpec: an invariant; see AccountSettings.                          *)
UntypedIsClean == Settings!UntypedIsClean
(* SettingsSpec: an action property; see AccountSettings.                    *)
EditsSurviveTabs == Settings!EditsSurviveTabs

(* LinksSpec: an invariant; see AccountLinks.                                *)
FailedVerifyIsFinal == Mailed!FailedVerifyIsFinal
(* LinksSpec: an invariant; see AccountLinks.                                *)
ResendsToRegistered == Mailed!ResendsToRegistered
(* LinksSpec: an invariant; see AccountLinks.                                *)
TokenLeavesTheUrl == Mailed!TokenLeavesTheUrl
(* LinksSpec: an invariant; see AccountLinks.                                *)
DeadIsDead == Mailed!DeadIsDead

(* LimitsSpec: an action property; see RateLimits.                           *)
DialogClosesForItself == Limits!DialogClosesForItself
(* LimitsSpec: an invariant; see RateLimits.                                 *)
NotStranded == Limits!NotStranded

(* AuditSpec: an invariant; see AuditLog.                                    *)
PositionIsOfThisList == Audit!PositionIsOfThisList
(* AuditSpec: an invariant; see AuditLog.                                    *)
FiltersHaveChips == Audit!FiltersHaveChips
=============================================================================
