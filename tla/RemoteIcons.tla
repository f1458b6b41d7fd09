---------------------------- MODULE RemoteIcons ----------------------------
(***************************************************************************)
(* Company logos for WebGL markers: what a tab knows of the remote images  *)
(* (lib/map-engine/icon-preflight.ts) and the logos it has inlined         *)
(* (lib/map-markers.ts 380-493).  A texture cannot use an image whose      *)
(* server does not allow it, so a URL is first tried in the background     *)
(* (preflight); until it is known to work the marker shows its emoji.  A   *)
(* usable URL is then fetched and kept as a data URI.                      *)
(*                                                                         *)
(* All of it is state of the module, shared by every marker of the tab:    *)
(*   results   the outcomes known, least recently used first               *)
(*   trying    the images being tried                                      *)
(*   failed    the failures remembered in sessionStorage, oldest first     *)
(*   inlined   the URLs whose data URI is cached, least recently used first*)
(*   fetching  the URLs whose bytes are being fetched                      *)
(* The operators are pure: they take and return such a record.  The write  *)
(* of failed is a microtask of the failure's own callback, so nothing else *)
(* runs between the two.  URLs that are local, or whose host is known to   *)
(* refuse, never reach these caches and are left out of the chains.        *)
(***************************************************************************)
EXTENDS Sequences, SequencesExt, FiniteSets, Naturals

CONSTANTS
    MaxResults,    \* ICON_PREFLIGHT_CACHE_MAX
    MaxTrying,     \* MAX_PENDING_ICON_PREFLIGHTS
    MaxFailed,     \* ICON_PREFLIGHT_FAIL_LIST_MAX
    MaxInlined,    \* REMOTE_ICON_DATA_URI_CACHE_MAX
    MaxFetching    \* REMOTE_ICON_FETCH_MAX_CONCURRENT

ASSUME CacheBounds ==
    /\ {MaxResults, MaxInlined} \subseteq Nat \ {0}
    /\ {MaxTrying, MaxFailed, MaxFetching} \subseteq Nat

NoUrl == "no url"

NoIcons == [results |-> << >>, trying |-> {}, failed |-> << >>,
            inlined |-> << >>, fetching |-> {}]

\* What Op does with one member of a sequence after the other, from start on.
Along(Op(_, _), start, s) ==
    LET done[n \in 0 .. Len(s)] == IF n = 0 THEN start ELSE Op(done[n - 1], s[n])
    IN  done[Len(s)]

\* The sequence without some of its members.
Without(s, gone) == Along(LAMBDA rest, x : IF x \in gone THEN rest ELSE Append(rest, x), << >>, s)

\* The last n members of a sequence: what is left when the oldest are dropped.
Newest(s, n) == SubSeq(s, IF Len(s) > n THEN Len(s) - n + 1 ELSE 1, Len(s))

Outcomes(icons, url) == {r \in ToSet(icons.results) : r.url = url}

Remembered(icons, url) ==
    IF Outcomes(icons, url) = {} THEN "unknown" ELSE (CHOOSE r \in Outcomes(icons, url) : TRUE).status

\* touchResultCache: the URL becomes the most recently used.
Remember(icons, url, status) ==
    LET rest == Without(icons.results, Outcomes(icons, url))
    IN  [icons EXCEPT !.results =
            Append(Newest(rest, MaxResults - 1), [url |-> url, status |-> status])]

\* touchRemoteIconCache
Inline(icons, url) ==
    LET rest == Without(icons.inlined, {url})
    IN  [icons EXCEPT !.inlined = Append(Newest(rest, MaxInlined - 1), url)]

IsInlined(icons, url) == url \in ToSet(icons.inlined)

\* remoteIconStatus: a known outcome is touched by being read; one that has
\* been dropped is looked up among the failures of the session.
Known(icons, url) ==
    IF Remembered(icons, url) = "unknown" /\ url \in ToSet(icons.failed)
    THEN "fail" ELSE Remembered(icons, url)

Asked(icons, url) ==
    IF Known(icons, url) = "unknown" THEN icons
    ELSE Remember(icons, url, Known(icons, url))

\* preflightRemoteIcon: one attempt at a time for a URL, none for a known one.
Try(icons, url) ==
    IF \/ Remembered(icons, url) # "unknown"
       \/ url \in icons.trying
       \/ Cardinality(icons.trying) >= MaxTrying
    THEN icons
    ELSE IF url \in ToSet(icons.failed) THEN Remember(icons, url, "fail")
    ELSE [icons EXCEPT !.trying = @ \cup {url}]

Considered(found, url) ==
    IF found.src # NoUrl THEN found
    ELSE CASE Known(found.icons, url) = "ok" ->
                [found EXCEPT !.icons = Asked(@, url), !.src = url]
           [] Known(found.icons, url) = "fail" ->
                [found EXCEPT !.icons = Asked(@, url)]
           [] OTHER ->
                [found EXCEPT !.ask = IF @ = NoUrl THEN url ELSE @]

AndTry(found) ==
    [src   |-> found.src,
     icons |-> IF found.ask = NoUrl THEN found.icons ELSE Try(found.icons, found.ask)]

\* resolveTMapIconSrc and the attempt its callers then start: the first URL of
\* the chain that is known to work, and the first one passed over that nothing
\* is known of.
Resolve(icons, chain) ==
    AndTry(Along(Considered, [icons |-> icons, src |-> NoUrl, ask |-> NoUrl], chain))

\* The callbacks of the tried image.
TriedWell(icons, url) ==
    [Remember(icons, url, "ok") EXCEPT !.trying = @ \ {url}]

TriedInVain(icons, url) ==
    LET others == IF url \in ToSet(icons.failed) THEN icons.failed
                  ELSE Append(icons.failed, url)
    IN  [Remember(icons, url, "fail") EXCEPT
            !.trying = @ \ {url}, !.failed = Newest(others, MaxFailed)]

\* fetchRemoteIconDataUri for a URL that is not inlined: the fetch under way is
\* joined, a new one starts if there is room; else the call is rejected.
CanFetch(icons, url) ==
    url \in icons.fetching \/ Cardinality(icons.fetching) < MaxFetching

Fetch(icons, url) == [icons EXCEPT !.fetching = @ \cup {url}]

Fetched(icons, url) == [Inline(icons, url) EXCEPT !.fetching = @ \ {url}]

FetchFailed(icons, url) == [icons EXCEPT !.fetching = @ \ {url}]
=============================================================================
