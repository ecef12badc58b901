------------------------------ MODULE WebFetch ------------------------------
(***************************************************************************)
(* The webfetch tool: calls that run beside each other, one redirect that  *)
(* is followed when it stays on the site, and the cache of converted pages *)
(* shared by the whole process (crates/fuyao-tools/src/web).               *)
(* A server is whatever it likes to be; what it served is named by its     *)
(* address and the time, so that the age of an answer can be told.         *)
(***************************************************************************)
EXTENDS Integers, FiniteSets

CONSTANTS
  Caller,   \* calls of the tool that run beside each other
  Host,     \* hosts, a leading "www." left out
  Port,     \* ports, among them Default
  Path,     \* paths on a host
  Format,   \* output formats asked for
  Refused,  \* hosts check_url_safety refuses
  Default,  \* the port of an address that names none
  Ttl,      \* WEBFETCH_CACHE_TTL
  MaxSize,  \* WEBFETCH_CACHE_MAX_SIZE
  Timeout,  \* what validate_timeout gave each request
  MaxClock  \* bound: seconds

VARIABLES
  clock,  \* the wall clock, in seconds
  cache,  \* (address, format) |-> [page, status, at]
  fetch   \* caller |-> the call it is in, and its last answer

vars == <<clock, cache, fetch>>

Url == [host : Host, port : Port, path : Path]
Page == [url : Url, format : Format, at : 0..MaxClock]
Status == {"ok", "error", "redirect"}
None == [kind |-> "none"]

TypeOK ==
  /\ clock \in 0..MaxClock
  /\ DOMAIN cache \subseteq Url \X Format
  /\ \A k \in DOMAIN cache : cache[k].page \in Page /\ cache[k].status \in Status /\ cache[k].at <= clock
  /\ DOMAIN fetch = Caller
  /\ \A c \in Caller : fetch[c].state \in {"idle", "asking", "reading", "told"}
Init ==
  /\ clock = 0 /\ cache = <<>>
  /\ fetch = [c \in Caller |-> [state |-> "idle"]]

(***************************************************************************)
(* The cache: cache.rs                                                     *)
(***************************************************************************)
\* Mutant: an entry lives a second longer.
FreshTooLong(entry) == clock - entry.at <= Ttl
Fresh(entry) == clock - entry.at < Ttl
\* get_cached_content: an expired entry is as good as none, and reading one does not renew it.
Cached(key) == key \in DOMAIN cache /\ Fresh(cache[key])
\* evict_if_needed drops what is expired and then the oldest until the limit is kept.  It
\* runs before the insertion, which may exceed the limit by one.
Kept == {k \in DOMAIN cache : Fresh(cache[k])}
Evictions ==
  {lost \in SUBSET Kept :
     /\ Cardinality(Kept \ lost) = (IF Cardinality(Kept) > MaxSize THEN MaxSize ELSE Cardinality(Kept))
     /\ \A k \in lost : \A o \in Kept \ lost : cache[k].at <= cache[o].at}
Inserted(key, entry, lost) ==
  [k \in (Kept \ lost) \union {key} |-> IF k = key THEN entry ELSE cache[k]]

(***************************************************************************)
(* One call: webfetch_handler                                              *)
(***************************************************************************)
Told(c, url, page) == fetch' = [fetch EXCEPT ![c] = [state |-> "told", url |-> url, page |-> page]]
Failed(c) == Told(c, None, None)
\* check_url_safety: a host without an address, and one with an address of the machine, of
\* a private network or of a cloud's metadata, are refused.
Safe(url) == url.host \notin Refused
\* An address that is refused is an error; a page in the cache is the answer; anything else
\* is asked for.
Begin(c, url, format) ==
  /\ fetch[c].state \in {"idle", "told"}
  /\ IF ~Safe(url) THEN Failed(c)
     ELSE IF Cached(<<url, format>>) THEN Told(c, url, cache[<<url, format>>].page)
     ELSE fetch' = [fetch EXCEPT ![c] = [state |-> "asking", asked |-> url, url |-> url,
                                         format |-> format, since |-> clock]]
  /\ UNCHANGED <<clock, cache>>
\* get_redirect_url: a location that begins with "/" is put behind scheme and host, without
\* the port; any other is taken as it stands.
Location(from, to) == IF to.host = "none" THEN [host |-> from.host, port |-> Default, path |-> to.path] ELSE to
Locations == Url \union [host : {"none"}, port : {Default}, path : Path]
\* is_same_domain_redirect
SameSite(a, b) == a.port = b.port /\ a.host = b.host
\* A redirect away from the site is an answer of its own; one that stays is followed once.
Redirected(c, to) ==
  /\ fetch[c].state = "asking" /\ fetch[c].url = fetch[c].asked
  /\ LET target == Location(fetch[c].url, to)
     IN IF SameSite(fetch[c].url, target)
        THEN fetch' = [fetch EXCEPT ![c].url = target, ![c].since = clock]
        ELSE Failed(c)
  /\ UNCHANGED <<clock, cache>>
\* The head of a response that is not too large.  The answer to the second request is taken
\* for a page, a redirect too.
Responds(c, status) ==
  /\ fetch[c].state = "asking"
  /\ status = "redirect" => fetch[c].url # fetch[c].asked
  /\ fetch' = [fetch EXCEPT ![c] = [state |-> "reading", asked |-> @.asked, url |-> @.url,
                 format |-> @.format, since |-> @.since, status |-> status,
                 page |-> [url |-> @.url, format |-> @.format, at |-> clock]]]
  /\ UNCHANGED <<clock, cache>>
\* The whole body is there: it is converted, kept under the address it came from, whatever
\* its status, and shown.
Shown(c, lost) ==
  /\ fetch[c].state = "reading" /\ lost \in Evictions
  /\ cache' = Inserted(<<fetch[c].url, fetch[c].format>>,
                       [page |-> fetch[c].page, status |-> fetch[c].status, at |-> clock], lost)
  /\ Told(c, fetch[c].asked, fetch[c].page)
  /\ UNCHANGED clock
\* No connection, a broken body, a body over the limit, or the time limit.
Breaks(c) == fetch[c].state \in {"asking", "reading"} /\ Failed(c) /\ UNCHANGED <<clock, cache>>
\* A request, body included, takes no longer than its time limit.
Tick ==
  /\ clock < MaxClock
  /\ \A c \in Caller : fetch[c].state \in {"asking", "reading"} => clock - fetch[c].since < Timeout
  \* an answer given is looked at once
  /\ fetch' = [c \in Caller |-> IF fetch[c].state = "told" THEN [state |-> "idle"] ELSE fetch[c]]
  /\ clock' = clock + 1 /\ UNCHANGED cache

Next ==
  \/ \E c \in Caller :
       \/ \E url \in Url, format \in Format : Begin(c, url, format)
       \/ \E to \in Locations : Redirected(c, to)
       \/ \E status \in Status : Responds(c, status)
       \/ \E lost \in SUBSET DOMAIN cache : Shown(c, lost)
       \/ Breaks(c)
  \/ Tick
Spec == Init /\ [][Next]_vars

(***************************************************************************)
(* Properties                                                              *)
(***************************************************************************)
\* However calls for one address overtake each other, an answer is the page of the site
\* asked for, no older than the life of an entry and the time of one request together
\* (cache.rs get_cached_content, handler.rs): the older of two bodies may be stored last.
AnswersAreRecent ==
  \A c \in Caller : fetch[c].state = "told" /\ fetch[c].page # None =>
    /\ clock - fetch[c].page.at < Ttl + Timeout
    /\ fetch[c].page.url.host = fetch[c].url.host
\* What the cache holds under an address is what that address itself served, in that
\* format, and an address that was redirected holds nothing (cache.rs set_cached_content).
KeysNameTheirPage == \A k \in DOMAIN cache : cache[k].page.url = k[1] /\ cache[k].page.format = k[2]
=============================================================================
