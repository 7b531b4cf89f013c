---------------------------- MODULE BrowserSessions ----------------------------
(***************************************************************************)
(* The browser MCP server (mcp-servers/browser.ts): sessions that each own *)
(* a Playwright browser, their pages, the marked elements and the refs a   *)
(* snapshot writes into a page.  Every tool call is asynchronous and calls *)
(* interleave at their awaits: a call looks its session and page up first  *)
(* and acts on what it found when Playwright answers.                      *)
(***************************************************************************)
EXTENDS Naturals, Sequences, FiniteSets, Functions

CONSTANTS
    Sids,        \* session ids the agent uses
    ToolCalls,   \* calls that may be in flight at once
    MaxBrowsers, \* bound: browsers ever started
    MaxPageIds,  \* bound: pages ever opened
    MaxElements, \* bound: interactive elements of a page
    MaxSessions, MaxPagesPerSession, MaxMarkers \* the server's limits

VARIABLES
    browserSess,     \* manager.sessions: the browser of each session id (0: none)
    browsers, \* each browser: running, its pages, the active one (0: none), stealth
    opened,   \* pages ever opened
    refs,     \* each page's interactive elements in order, with their data-ref (0: none)
    marks,    \* manager.markers: the page each marker is on (0: free slot)
    calls     \* each call: what it awaits, its session, browser and page
browserVars == <<browserSess, browsers, opened, refs, marks, calls>>

PageIds == 1..MaxPageIds
Slots == 1..MaxMarkers
NoBrowser == [up |-> FALSE, pages |-> {}, active |-> 0, stealth |-> FALSE]
IdleCall == [op |-> "idle", sid |-> CHOOSE s \in Sids : TRUE, b |-> 0, page |-> 0]

BrowserInit ==
    /\ browserSess = [s \in Sids |-> 0] /\ browsers = [b \in 1..MaxBrowsers |-> NoBrowser]
    /\ opened = 0 /\ refs = [p \in PageIds |-> <<>>] /\ marks = [m \in Slots |-> 0]
    /\ calls = [c \in ToolCalls |-> IdleCall]

SessionStarted == Cardinality({b \in 1..MaxBrowsers : browsers[b] # NoBrowser})
(* getSession() and getPage(): the call fails at once without them.        *)
HasSession(s) == browserSess[s] # 0
HasPage(s, p) == HasSession(s) /\ p \in browsers[browserSess[s]].pages
PageLive(b, p) == browsers[b].up /\ p \in browsers[b].pages
CallBegins(c, op, s, p) == calls[c] = IdleCall /\ calls' = [calls EXCEPT ![c] = [op |-> op, sid |-> s, b |-> browserSess[s], page |-> p]]
Answers(c) == calls' = [calls EXCEPT ![c] = IdleCall]
Unmarked(P) == [m \in Slots |-> IF marks[m] \in P THEN 0 ELSE marks[m]]

(* browser_launch and browser_connect: reuse what the id names, or check   *)
(* the limit and start a browser; the session is stored when it is up.     *)
MayLaunch(s) == ~HasSession(s) /\ Cardinality({t \in Sids : HasSession(t)}) < MaxSessions
LaunchBegins(c, s) ==
    /\ MayLaunch(s)
    /\ SessionStarted < MaxBrowsers /\ CallBegins(c, "launch", s, 0)
    /\ UNCHANGED <<browserSess, browsers, opened, refs, marks>>
Launches(c) ==
    /\ calls[c].op = "launch" /\ SessionStarted < MaxBrowsers
    /\ browsers' = [browsers EXCEPT ![SessionStarted + 1] = [NoBrowser EXCEPT !.up = TRUE]]
    /\ browserSess' = [browserSess EXCEPT ![calls[c].sid] = SessionStarted + 1]
    /\ calls' = [calls EXCEPT ![c].op = "newPage", ![c].b = SessionStarted + 1]
    /\ UNCHANGED <<opened, refs, marks>>
(* Over CDP the browser's tabs become the pages, the first one active.     *)
Connects(c) ==
    /\ calls[c].op = "launch" /\ SessionStarted < MaxBrowsers /\ opened < MaxPageIds
    /\ browsers' = [browsers EXCEPT ![SessionStarted + 1] = [NoBrowser EXCEPT !.up = TRUE, !.pages = {opened + 1}, !.active = opened + 1]]
    /\ browserSess' = [browserSess EXCEPT ![calls[c].sid] = SessionStarted + 1] /\ opened' = opened + 1 /\ Answers(c)
    /\ UNCHANGED <<refs, marks>>
LaunchFails(c) ==
    /\ calls[c].op \in {"launch", "newPage"} /\ Answers(c)
    /\ UNCHANGED <<browserSess, browsers, opened, refs, marks>>

(* browser_new_page: the limit is checked before Playwright opens it.      *)
NewPageBegins(c, s) ==
    /\ HasSession(s) /\ Cardinality(browsers[browserSess[s]].pages) < MaxPagesPerSession
    /\ CallBegins(c, "newPage", s, 0) /\ UNCHANGED <<browserSess, browsers, opened, refs, marks>>
PageOpens(c) ==
    /\ calls[c].op = "newPage" /\ browsers[calls[c].b].up /\ opened < MaxPageIds
    /\ browsers' = [browsers EXCEPT ![calls[c].b].pages = @ \cup {opened + 1}, ![calls[c].b].active = opened + 1]
    /\ opened' = opened + 1 /\ Answers(c) /\ UNCHANGED <<browserSess, refs, marks>>

(* browser_close: markers go first, the session last.                      *)
CloseBegins(c, s) ==
    /\ HasSession(s) /\ CallBegins(c, "close", s, 0) /\ marks' = Unmarked(browsers[browserSess[s]].pages)
    /\ UNCHANGED <<browserSess, browsers, opened, refs>>
CloseEnds(c) ==
    /\ calls[c].op = "close" /\ browsers' = [browsers EXCEPT ![calls[c].b].up = FALSE]
    /\ browserSess' = [browserSess EXCEPT ![calls[c].sid] = 0] /\ Answers(c) /\ UNCHANGED <<opened, refs, marks>>

(* browser_close_page and browser_save_video: the markers are cleared,     *)
(* then the page is closed, then it leaves the session.                    *)
ClosePageBegins(c, s, p) ==
    /\ HasPage(s, p) /\ CallBegins(c, "closePage", s, p) /\ marks' = Unmarked({p})
    /\ UNCHANGED <<browserSess, browsers, opened, refs>>
KeepActive(b, p) == IF browsers[b].pages \subseteq {p} THEN 0 ELSE browsers[b].active
NextActive(b, p) == IF browsers[b].active # p THEN browsers[b].active
                    ELSE IF browsers[b].pages \subseteq {p} THEN 0
                    ELSE CHOOSE q \in browsers[b].pages \ {p} : \A r \in browsers[b].pages \ {p} : q <= r
ClosePageEnds(c) ==
    LET b == calls[c].b  p == calls[c].page IN
    /\ calls[c].op = "closePage" /\ Answers(c)
    /\ browsers' = [browsers EXCEPT ![b].pages = @ \ {p}, ![b].active = NextActive(b, p)]
    /\ UNCHANGED <<browserSess, opened, refs, marks>>
SwitchPage(s, p) ==
    /\ HasPage(s, p) /\ browsers' = [browsers EXCEPT ![browserSess[s]].active = p]
    /\ UNCHANGED <<browserSess, opened, refs, marks, calls>>

(* browser_mark: the element is awaited, then a slot is taken.             *)
MarkBegins(c, s, p) ==
    /\ HasPage(s, p) /\ CallBegins(c, "mark", s, p) /\ UNCHANGED <<browserSess, browsers, opened, refs, marks>>
MarkEnds(c) ==
    /\ calls[c].op = "mark" /\ Answers(c)
    /\ \/ PageLive(calls[c].b, calls[c].page) /\ \E m \in Slots : marks[m] = 0 /\ marks' = [marks EXCEPT ![m] = calls[c].page]
       \/ UNCHANGED marks
    /\ UNCHANGED <<browserSess, browsers, opened, refs>>
ClearMarkers(P) ==
    /\ \E m \in Slots : marks[m] \in P
    /\ marks' = Unmarked(P) /\ UNCHANGED <<browserSess, browsers, opened, refs, calls>>
(* Every two minutes a marker older than five whose element is not in its  *)
(* document any more is dropped.                                           *)
Detached(m) == marks[m] # 0 /\ \A b \in 1..MaxBrowsers : ~PageLive(b, marks[m])
SweptOfOpenSessions(m) == Detached(m) /\ \E s \in Sids : HasSession(s) /\ marks[m] \in browsers[browserSess[s]].pages
Swept(m) == Detached(m)
CleanupStale(m) ==
    /\ Swept(m) /\ marks' = [marks EXCEPT ![m] = 0]
    /\ UNCHANGED <<browserSess, browsers, opened, refs, calls>>

(* The page itself: it navigates, which clears its markers, or scripts add *)
(* an interactive element before or after the others.                      *)
Navigates(b, p) ==
    /\ PageLive(b, p) /\ refs[p] # <<>> /\ refs' = [refs EXCEPT ![p] = <<>>] /\ marks' = Unmarked({p})
    /\ UNCHANGED <<browserSess, browsers, opened, calls>>
ElementAppears(b, p) ==
    /\ PageLive(b, p) /\ Len(refs[p]) < MaxElements
    /\ \E r \in {Append(refs[p], 0), <<0>> \o refs[p]} : refs' = [refs EXCEPT ![p] = r]
    /\ UNCHANGED <<browserSess, browsers, opened, marks, calls>>

(* browser_snapshot: elements without a ref get one, counted from 1 on     *)
(* every call.                                                             *)
Numbered(els) == [i \in DOMAIN els |-> IF els[i] # 0 THEN els[i] ELSE Cardinality({j \in 1..i : els[j] = 0})]
Snapshot(s, p) ==
    /\ HasPage(s, p) /\ PageLive(browserSess[s], p) /\ refs' = [refs EXCEPT ![p] = Numbered(@)]
    /\ UNCHANGED <<browserSess, browsers, opened, marks, calls>>
(* browser_stealth patches the pages of the moment, once per session.      *)
Stealth(s) ==
    /\ HasSession(s) /\ ~browsers[browserSess[s]].stealth
    /\ browsers' = [browsers EXCEPT ![browserSess[s]].stealth = TRUE] /\ UNCHANGED <<browserSess, opened, refs, marks, calls>>

(* Every other tool finds its page, awaits Playwright and answers, with    *)
(* the error of a page that is gone at worst; none keeps state of its own, *)
(* but a click, a key or a script may make the page navigate.              *)
Visiting == {"browser_navigate", "browser_history"}
Pointing == {"browser_click", "browser_type", "browser_press", "browser_fill_form"}
ByRef == {"browser_click_ref", "browser_type_ref"}
ByMarker == {"browser_click_marker", "browser_type_marker"}
Scripting == {"browser_evaluate"}
Moving == {"browser_select", "browser_scroll", "browser_hover", "browser_wait_for"}
Settling == {"browser_wait_for_stability", "browser_content"}
Querying == {"browser_query", "browser_wait"}
Extracting == {"browser_extract"}
Capturing == {"browser_screenshot", "browser_pdf", "browser_get_har"}
Dialogs == {"browser_handle_dialog", "browser_get_cookies", "browser_clear_cookies"}
Diagnosing == {"browser_diagnose", "browser_get_logs"}
Checking == {"browser_health_check"}
Asserting == {"browser_assert"}
MayNavigate == Visiting \cup Pointing \cup ByRef \cup ByMarker \cup Scripting
PageTools == MayNavigate \cup Moving \cup Settling \cup Querying \cup Extracting \cup Capturing
             \cup Dialogs \cup Diagnosing \cup Checking \cup Asserting
UseBegins(c, s, p, tool) ==
    /\ HasPage(s, p) /\ CallBegins(c, IF tool \in MayNavigate THEN "act" ELSE "read", s, p)
    /\ UNCHANGED <<browserSess, browsers, opened, refs, marks>>
UseEnds(c) ==
    /\ calls[c].op \in {"act", "read"} /\ Answers(c) /\ UNCHANGED <<browserSess, browsers, opened, refs, marks>>
ActNavigates(c) ==
    /\ calls[c].op = "act" /\ Answers(c) /\ PageLive(calls[c].b, calls[c].page)
    /\ refs' = [refs EXCEPT ![calls[c].page] = <<>>] /\ marks' = Unmarked({calls[c].page})
    /\ UNCHANGED <<browserSess, browsers, opened>>

BrowserNext ==
    \/ \E c \in ToolCalls, s \in Sids :
        \/ LaunchBegins(c, s) \/ NewPageBegins(c, s) \/ CloseBegins(c, s)
        \/ \E p \in PageIds : ClosePageBegins(c, s, p) \/ MarkBegins(c, s, p) \/ \E tool \in PageTools : UseBegins(c, s, p, tool)
    \/ \E c \in ToolCalls : Launches(c) \/ Connects(c) \/ LaunchFails(c) \/ PageOpens(c) \/ CloseEnds(c)
                            \/ ClosePageEnds(c) \/ MarkEnds(c) \/ UseEnds(c) \/ ActNavigates(c)
    \/ \E s \in Sids : Stealth(s) \/ \E p \in PageIds : SwitchPage(s, p) \/ Snapshot(s, p)
    \/ \E P \in {PageIds} \cup {{p} : p \in PageIds} : ClearMarkers(P)
    \/ \E b \in 1..MaxBrowsers, p \in PageIds : Navigates(b, p) \/ ElementAppears(b, p)
    \/ \E m \in Slots : CleanupStale(m)
(* The sweep is an interval timer; Playwright's calls have timeouts.       *)
BrowserFairness ==
    /\ \A m \in Slots : WF_browserVars(CleanupStale(m))
    /\ \A c \in ToolCalls : WF_browserVars(CloseEnds(c)) /\ WF_browserVars(ClosePageEnds(c))
-----------------------------------------------------------------------------
(* The active page of a session is one of its pages, whatever was opened,  *)
(* switched to or closed while a close was waiting for Playwright          *)
(* (browser.ts 572, 2057, 2088-2093).                                      *)
ActiveExists == \A b \in 1..MaxBrowsers : browsers[b].active # 0 => browsers[b].active \in browsers[b].pages

(* A marker never outlives its page for good: one that a mark call leaves  *)
(* on a page being closed is freed again, so that the 100 slots do not     *)
(* fill with dead elements (browser.ts 604-609, 682-700, 2085).            *)
MarkersDrain == \A m \in Slots : Detached(m) ~> ~Detached(m)

(* "Use browser_click_ref with ref ID (e.g., "ref5") for reliable          *)
(* clicking" (browser.ts:1451): a ref names one element of its page.       *)
RefNamesOne == \A p \in PageIds : IsInjective([i \in {j \in DOMAIN refs[p] : refs[p][j] # 0} |-> refs[p][i]])
=============================================================================
