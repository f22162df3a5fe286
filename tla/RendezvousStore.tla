--------------------------- MODULE RendezvousStore ---------------------------
(***************************************************************************)
(* The discovery state of a node (crates/node/src/rendezvous/store.rs) and *)
(* the only code that drives it (crates/node/src/relay.rs): every request  *)
(* is preceded by an expiry at the same instant, and a timer expires too.  *)
(*                                                                         *)
(* A signed record is its peer and whether it decodes and its addresses    *)
(* are accepted.  A cookie is the number it starts with.  The numbers are  *)
(* u64 counters that start at 1; they are bounded here, so never wrap.     *)
(***************************************************************************)
EXTENDS Naturals, Sequences, FiniteSets, Functions

CONSTANTS
  Peers, Namespaces,
  MinTtl, MaxTtl, PerPeer, Total, PerNamespace, Cookies, Results,
  RegisterRate, DiscoverRate, RatePeers,
  WINDOW,
  MaxRegistrations, MaxDiscoveries, MaxTime,  \* bounds of the model
  None

\* What NodeConfig::validate guarantees of the limits.
ValidLimits ==
  /\ MinTtl \in Nat \ {0} /\ MaxTtl \in Nat /\ MinTtl <= MaxTtl
  /\ Total \in Nat
  /\ PerPeer \in 1..Total
  /\ PerNamespace \in 1..Total
  /\ Results \in 1..Total
  /\ Cookies \in Nat \ {0}
  /\ RegisterRate \in Nat \ {0} /\ DiscoverRate \in Nat \ {0}
  /\ RatePeers \in Nat \ {0}

StoreAssumption ==
  /\ ValidLimits
  /\ WINDOW \in Nat \ {0}
  /\ MaxRegistrations \in Nat /\ MaxDiscoveries \in Nat /\ MaxTime \in Nat
  /\ None \notin Nat /\ None \notin Namespaces

VARIABLES
  registrations,      \* (peer, namespace) -> id, expires_at
  cookies,            \* cookie -> namespace, seen
  cookie_order,
  rates,              \* peer -> window_started, registrations, discoveries
  next_registration,
  next_cookie,
  now,                \* Instant::now()
  pages               \* history: what each Discover returned, by cookie

storeVars == <<registrations, cookies, cookie_order, next_registration,
               next_cookie>>
vars == <<storeVars, rates, now, pages>>

Records == [peer : Peers, decodes : BOOLEAN, routable : BOOLEAN]

Init ==
  /\ registrations = <<>>
  /\ cookies = <<>>
  /\ cookie_order = <<>>
  /\ rates = <<>>
  /\ next_registration = 1
  /\ next_cookie = 1
  /\ now = 0
  /\ pages = <<>>

Insert(f, k, v) == [x \in DOMAIN f \cup {k} |-> IF x = k THEN v ELSE f[x]]
-----------------------------------------------------------------------------
(* admit *)

Retained ==
  RestrictValues(rates, LAMBDA r : now - r.window_started < WINDOW)

TableFull(peer) ==
  /\ peer \notin DOMAIN Retained
  /\ Cardinality(DOMAIN Retained) >= RatePeers

RateState(peer) ==
  IF peer \in DOMAIN Retained
    THEN Retained[peer]
    ELSE [window_started |-> now, registrations |-> 0, discoveries |-> 0]

admit_register(peer) ==
  /\ ~TableFull(peer)
  /\ RateState(peer).registrations < RegisterRate
  /\ rates' = Insert(Retained, peer,
                     [RateState(peer) EXCEPT !.registrations = @ + 1])

admit_discover(peer) ==
  /\ ~TableFull(peer)
  /\ RateState(peer).discoveries < DiscoverRate
  /\ rates' = Insert(Retained, peer,
                     [RateState(peer) EXCEPT !.discoveries = @ + 1])

\* A request over its rate, or of a peer the table has no room for.
not_admitted(peer) ==
  \/ /\ TableFull(peer)
     /\ rates' = Retained
  \/ /\ ~TableFull(peer)
     /\ \/ RateState(peer).registrations >= RegisterRate
        \/ RateState(peer).discoveries >= DiscoverRate
     /\ rates' = Insert(Retained, peer, RateState(peer))
-----------------------------------------------------------------------------
(* expire, and what the other operations find after it *)

Unexpired_later ==
  RestrictValues(registrations, LAMBDA r : r.expires_at >= now)

Unexpired ==
  RestrictValues(registrations, LAMBDA r : r.expires_at > now)

ExpiredIds ==
  {registrations[k].id : k \in DOMAIN registrations \ DOMAIN Unexpired}

remove_from_cookies_keeps(held, ids) == held

\* Removing one id after the other drops the cookies whose seen set is empty
\* each time, so the ids may be removed together when there are any.
remove_from_cookies(held, ids) ==
  IF ids = {} THEN held
  ELSE [c \in {d \in DOMAIN held : held[d].seen \ ids # {}} |->
          [held[c] EXCEPT !.seen = @ \ ids]]

FreshCookies == remove_from_cookies(cookies, ExpiredIds)

OrderOf(held) == SelectSeq(cookie_order, LAMBDA c : c \in DOMAIN held)

expire ==
  /\ registrations' = Unexpired
  /\ cookies' = FreshCookies
  /\ cookie_order' = OrderOf(FreshCookies)
  /\ UNCHANGED <<next_registration, next_cookie>>

\* The 1 s timer of serve and drain.
expire_discovery ==
  /\ expire
  /\ UNCHANGED <<rates, now, pages>>
-----------------------------------------------------------------------------
validate_record(peer, record) ==
  record.decodes /\ record.peer = peer /\ record.routable

Ttl(ttl) == IF ttl = None THEN MaxTtl ELSE ttl

TtlAllowed(ttl) == Ttl(ttl) \in MinTtl..MaxTtl

HasRoom_one_more(peer, namespace) ==
  /\ Cardinality(DOMAIN Unexpired) <= Total
  /\ Cardinality({k \in DOMAIN Unexpired : k[1] = peer}) <= PerPeer
  /\ Cardinality({k \in DOMAIN Unexpired : k[2] = namespace}) <= PerNamespace

HasRoom(peer, namespace) ==
  /\ Cardinality(DOMAIN Unexpired) < Total
  /\ Cardinality({k \in DOMAIN Unexpired : k[1] = peer}) < PerPeer
  /\ Cardinality({k \in DOMAIN Unexpired : k[2] = namespace}) < PerNamespace

Registrable(peer, namespace, record) ==
  /\ namespace \in Namespaces
  /\ validate_record(peer, record)
  /\ \/ <<peer, namespace>> \in DOMAIN Unexpired
     \/ HasRoom(peer, namespace)

NewId == next_registration

PreviousId(key) ==
  {Unexpired[k].id : k \in {l \in DOMAIN Unexpired : l = key}}

\* A registration of the same peer and namespace is replaced under a new id.
register(peer, namespace, record) ==
  /\ next_registration <= MaxRegistrations
  /\ Registrable(peer, namespace, record)
  /\ admit_register(peer)
  /\ LET key == <<peer, namespace>>
         held == remove_from_cookies(FreshCookies, PreviousId(key))
     IN  /\ \E ttl \in 0..(MaxTtl + 1) \cup {None} :
              /\ TtlAllowed(ttl)
              /\ registrations' =
                   Insert(Unexpired, key, [id |-> NewId,
                                           expires_at |-> now + Ttl(ttl)])
         /\ cookies' = held
         /\ cookie_order' = OrderOf(held)
  /\ next_registration' = next_registration + 1
  /\ UNCHANGED <<next_cookie, now, pages>>

unregister(peer, namespace) ==
  /\ admit_register(peer)
  /\ namespace \in Namespaces
  /\ LET key == <<peer, namespace>>
         held == remove_from_cookies(FreshCookies, PreviousId(key))
     IN  /\ registrations' = Restrict(Unexpired, DOMAIN Unexpired \ {key})
         /\ cookies' = held
         /\ cookie_order' = OrderOf(held)
  /\ UNCHANGED <<next_registration, next_cookie, now, pages>>
-----------------------------------------------------------------------------
(* discover *)

Requested(limit) ==
  IF limit = None \/ limit > Results THEN Results ELSE limit

KnownCookie(cookie, namespace) ==
  \/ cookie = None
  \/ /\ cookie \in DOMAIN FreshCookies
     /\ FreshCookies[cookie].namespace = namespace

Seen(cookie) == IF cookie = None THEN {} ELSE FreshCookies[cookie].seen

Ids(held, namespace) ==
  {held[k].id : k \in {l \in DOMAIN held : l[2] = namespace}}

\* Sorted by id and truncated: the oldest `requested` that were not seen.
Page(namespace, seen, requested) ==
  LET unseen == Ids(Unexpired, namespace) \ seen
  IN  {id \in unseen : Cardinality({i \in unseen : i < id}) < requested}

\* How many cookies insert_cookie pops: the first that leave room, or all.
Evictions ==
  LET order == OrderOf(FreshCookies)
      left(k) == DOMAIN FreshCookies \ {order[i] : i \in 1..k}
  IN  CHOOSE k \in 0..Len(order) :
        /\ k = Len(order) \/ Cardinality(left(k)) < Cookies
        /\ \A j \in 0..(k - 1) : Cardinality(left(j)) >= Cookies

EvictOldest(order, k) == SubSeq(order, k + 1, Len(order))

insert_cookie(namespace, seen) ==
  LET order == EvictOldest(OrderOf(FreshCookies), Evictions)
      held == Restrict(FreshCookies, DOMAIN FreshCookies \cap Range(order))
  IN  /\ cookies' = Insert(held, next_cookie,
                           [namespace |-> namespace, seen |-> seen])
      /\ cookie_order' = Append(order, next_cookie)
      /\ next_cookie' = next_cookie + 1

Handed(cookie) ==
  IF cookie = None THEN {} ELSE pages[cookie].before \cup pages[cookie].ids

discover(peer, namespace, cookie, limit) ==
  /\ next_cookie <= MaxDiscoveries
  /\ namespace \in Namespaces
  /\ KnownCookie(cookie, namespace)
  /\ admit_discover(peer)
  /\ LET page == Page(namespace, Seen(cookie), Requested(limit))
     IN  /\ insert_cookie(namespace, Seen(cookie) \cup page)
         /\ pages' = Append(pages, [namespace |-> namespace,
                                    requested |-> Requested(limit),
                                    before |-> Handed(cookie), ids |-> page])
  /\ registrations' = Unexpired
  /\ UNCHANGED <<next_registration, now>>

\* A request over its rate, or an admitted one that fails a check: whatever the
\* state, its namespace, its record, its ttl or its cookie may be an invalid one.
Rejected(peer) ==
  /\ admit_register(peer) \/ admit_discover(peer) \/ not_admitted(peer)
  /\ expire
  /\ UNCHANGED <<now, pages>>

Tick ==
  /\ now < MaxTime
  /\ now' = now + 1
  /\ UNCHANGED <<storeVars, rates, pages>>

Next ==
  \/ \E peer \in Peers, namespace \in Namespaces :
       \/ \E record \in Records : register(peer, namespace, record)
       \/ unregister(peer, namespace)
       \/ \E cookie \in 1..MaxDiscoveries \cup {None},
             limit \in 0..(Results + 1) \cup {None} :
            discover(peer, namespace, cookie, limit)
  \/ \E peer \in Peers : Rejected(peer)
  \/ expire_discovery
  \/ Tick

Spec == Init /\ [][Next]_vars
-----------------------------------------------------------------------------
\* Every table stays within its configured limit, whatever is replaced,
\* expires or is evicted: in total, per peer, per namespace, cookies, rates.
WithinLimits ==
  /\ Cardinality(DOMAIN registrations) <= Total
  /\ \A p \in Peers :
       Cardinality({k \in DOMAIN registrations : k[1] = p}) <= PerPeer
  /\ \A n \in Namespaces :
       Cardinality({k \in DOMAIN registrations : k[2] = n}) <= PerNamespace
  /\ Cardinality(DOMAIN cookies) <= Cookies
  /\ Cardinality(DOMAIN rates) <= RatePeers

\* What a held cookie remembers is what was handed out along its pages and is
\* still registered: no id of a removed registration stays behind, and none
\* of a live one is forgotten, over any replacement, expiry or eviction.
SeenIsLiveHistory ==
  \A c \in DOMAIN cookies :
    cookies[c].seen = Handed(c) \cap Ids(registrations, cookies[c].namespace)

\* A page repeats nothing that an earlier page of its chain had, names only
\* live registrations of its namespace, has at most `requested` of them, and
\* holds back only newer ones, and those only when it is full.
PagesAdvance ==
  [][next_cookie' # next_cookie =>
       LET page == pages'[next_cookie]
           live == {id \in Ids(registrations', page.namespace) :
                      \A k \in DOMAIN registrations' :
                        registrations'[k].id = id
                          => registrations'[k].expires_at > now}
           held_back == live \ (page.before \cup page.ids)
       IN  /\ page.ids \cap page.before = {}
           /\ page.ids \subseteq live
           /\ Cardinality(page.ids) <= page.requested
           /\ \A i \in page.ids, j \in held_back : i < j
           /\ held_back # {} => Cardinality(page.ids) = page.requested]_vars
=============================================================================
