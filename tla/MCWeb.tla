-------------------------------- MODULE MCWeb --------------------------------
(***************************************************************************)
(* Finite instances of the web app's parts that share no row: what the     *)
(* dashboard reads, the rate limiter, the settings page and the onboarding *)
(* page.  They do not interact, so a behaviour is about one of them, its   *)
(* subject, and the others stay as they are; likewise the case list and a  *)
(* case's page, and the name and the secret of the settings page.          *)
(***************************************************************************)
EXTENDS Dashboard, RateLimiter, Settings, Onboarding, FiniteSetsExt

(* The sums of the figures are what the library's fold computes.           *)
ASSUME SumsAreFolds ==
    \A f \in [Cases -> Amounts] : SumOf(f) = MapThenSumSet(LAMBDA c : f[c], Cases)

VARIABLE subject

Subjects == {"list", "detail", "limiter", "name", "secret", "onboarding"}

webVars == <<vars, limiterVars, settingsVars, onboardingVars, subject>>

WebInit ==
    /\ subject \in Subjects
    /\ Init /\ LimiterInit /\ SettingsInit /\ OnboardingInit
    /\ subject # "secret" => isEncrypted(merchant.secret)
    /\ subject # "onboarding" => ~firstEvent

dashboardOnly == UNCHANGED <<limiterVars, settingsVars, onboardingVars, subject>>
settingsOnly == UNCHANGED <<vars, limiterVars, onboardingVars, subject>>

listOnly == UNCHANGED <<attempts, messages, detail>> /\ dashboardOnly
detailOnly == UNCHANGED <<walk, kept>> /\ dashboardOnly

WebNext ==
    \/ subject = "list" /\ listOnly /\ Next
    \/ subject = "detail" /\ detailOnly /\ Next /\ \A c \in Cases \ Detailed : row'[c] = row[c]
    \/ subject = "name" /\ settingsOnly /\ NameNext
    \/ subject = "secret" /\ settingsOnly /\ SecretNext
    \/ /\ subject = "limiter" /\ LimiterNext
       /\ UNCHANGED <<vars, settingsVars, onboardingVars, subject>>
    \/ /\ subject = "onboarding" /\ OnboardingNext
       /\ UNCHANGED <<vars, limiterVars, settingsVars, subject>>

PollsGoOn == \A q \in Polls : WF_webVars(subject = "onboarding" /\ WebNext /\ PollGoesOn(q))

WebSpec == WebInit /\ [][WebNext]_webVars /\ PollsGoOn

TwoPerWindow == [s \in Scopes |-> 2]
=============================================================================
