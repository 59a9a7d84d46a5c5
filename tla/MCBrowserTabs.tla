---------------------------- MODULE MCBrowserTabs ----------------------------
(***************************************************************************)
(* The browser's ends: a tab of the dashboard in front of one family, a    *)
(* reader of the customer site and what stands on its every page (bar,     *)
(* drawer, theme), and a screen that has to tell of something thrown.      *)
(* They share no state; a behaviour is about one, its scene.               *)
(***************************************************************************)
EXTENDS BrowserTabs, TLC

CONSTANTS alice, phone, r1, r2, t1, t2,
          PriceCeilings, RatingFloors, Radii, MaxCompare, TeaserCount, None, Blank, Junk,
          Pages, Still

VARIABLES scene, url, bar, drawer, theme

MCOwner == [s \in Session |-> alice]

\* Every filter, set alone, keeps some gym and drops another; one gym is unrated, and a
\* comparison holds fewer gyms than there are.
MCCatalogue ==
    <<[city |-> "bengaluru", categories |-> {"strength"}, amenities |-> {"pool"},
       words |-> {"iron"}, price |-> 249900, rating |-> 47, distance |-> 12],
      [city |-> "bengaluru", categories |-> {"strength", "yoga"}, amenities |-> {},
       words |-> {"yoga"}, price |-> 149900, rating |-> None, distance |-> 61],
      [city |-> "delhi", categories |-> {"strength"}, amenities |-> {"pool"},
       words |-> {"iron", "yoga"}, price |-> 89900, rating |-> 38, distance |-> 24]>>

Site == INSTANCE Discovery WITH Catalogue <- MCCatalogue

Screens == INSTANCE Problems

Chrome == INSTANCE SiteChrome

chromeVars == <<bar, drawer, theme>>
mcvars == <<allVars, chromeVars, scene, url>>

ChromeInit ==
    /\ IF scene = "bar" THEN Chrome!BarInit ELSE bar = "none"
    /\ IF scene = "drawer" THEN Chrome!DrawerInit ELSE drawer = "none"
    /\ IF scene = "theme" THEN Chrome!ThemeInit ELSE theme = "none"

MCInit ==
    /\ BrowserInit
    /\ \/ scene = "site" /\ Site!Init
       \/ scene \in {"dashboard", "bar", "drawer", "theme"} /\ url = "none"
       \/ scene = "problem" /\ \E thrown \in Screens!Throwables("sql") : url = thrown
    /\ ChromeInit

DashboardNext == scene = "dashboard" /\ BrowserNext /\ UNCHANGED <<scene, url, chromeVars>>
SiteNext == scene = "site" /\ Site!Next /\ UNCHANGED <<scene, allVars, chromeVars>>
ChromeNext ==
    /\ \/ scene = "bar" /\ Chrome!BarNext /\ UNCHANGED <<drawer, theme>>
       \/ scene = "drawer" /\ Chrome!DrawerNext /\ UNCHANGED <<bar, theme>>
       \/ scene = "theme" /\ Chrome!ThemeNext /\ UNCHANGED <<bar, drawer>>
    /\ UNCHANGED <<scene, url, allVars>>

MCSpec == MCInit /\ [][DashboardNext \/ SiteNext \/ ChromeNext]_mcvars /\ BrowserFairness

-----------------------------------------------------------------------------
(* Discovery: counts, filters, addresses and selections mean what they say *)
(* on every page a reader can reach, whoever wrote the first address; and  *)
(* Problems: whatever is thrown, no screen tells its cause, and each tells *)
(* whose fault it was and whether trying again may help; and SiteChrome:   *)
(* the bar, the drawer and the theme are as the page says.                 *)
PagesTellTheTruth ==
    /\ scene = "site" => Site!PagesTellTheTruth
    /\ scene = "problem" => Screens!ProblemsAreTold(url, {"sql", "path"})
    /\ scene = "bar" => Chrome!BarComesDown /\ Chrome!SlowPagesAreAnnounced
    /\ scene = "drawer" => Chrome!PageScrollsAgain
    /\ scene = "theme" => Chrome!ThemeIsAsTold /\ Chrome!FocusIsNotHidden
=============================================================================
