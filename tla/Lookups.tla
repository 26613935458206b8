------------------------------- MODULE Lookups -------------------------------
(* The modules that ask the web something for somebody in a channel: google,    *)
(* urbandict, youtube, tinyurl, php, bitly, and github, which has its links     *)
(* shortened by bitly; and modules/http, by which they ask.  Each keeps objects *)
(* that point to requests of http and finds them by that pointer.  They do not  *)
(* meet, but for bitly and github, so one of them runs at a time.               *)
EXTENDS Naturals, FiniteSets, SequencesExt

CONSTANTS Addr,      \* where struct HTTPRequest may lie
          Query,     \* what is asked for
          Client,    \* the modules
          Asker,     \* channels or nicks
          Hook,      \* the asker that is github's web hook
          MaxObjects \* bound

ASSUME LookupsAssumption ==
    /\ "NULL" \notin Query /\ Hook \in Asker
    /\ Client \subseteq {"google", "urbandict", "youtube", "tinyurl", "php", "bitly"}

VARIABLES http,      \* the requests, by address
          client,    \* which of them runs, chosen once
          loaded,    \* is it, and is github
          objects,   \* its objects, in the order of its dict or list
          php_cache,
          misled,    \* who was told something else: asker, what he asked; history only
          errors     \* history only

-----------------------------------------------------------------------------
(* modules/http: requests at addresses of memory that are used again.  One      *)
(* handler of the socket runs the read and event functions of whoever asked, so *)
(* its steps are given here as what they do to the request, and put together    *)
(* with the functions of the modules that ask below.  There is no timeout.      *)

\* stuck: no event will come any more, the socket is gone and http->sock points to it.
\* buf: what has come after the headers, or "location" for a redirection that is not followed
\* query: what this request was made for; history only
NoRequest == [st |-> "free", in_headers |-> TRUE, buf |-> "empty", query |-> "none"]
Buffer == {"empty", "answer", "negative", "odd", "location"}

httpInit == http = [a \in Addr |-> NoRequest]

Open(a) == http[a].st \in {"connecting", "connected"}

\* HTTPRequest_connect: what sock_connect returns is not looked at.
HTTPRequest_connect == {"connecting", "stuck"}

HTTPRequest_create(a, query) ==
    /\ http[a].st = "free"
    /\ \E st \in HTTPRequest_connect : http' = [http EXCEPT ![a] = [NoRequest EXCEPT !.st = st, !.query = query]]

\* HTTPRequest_cancel, and the deletion after the last event
HTTPRequest_free(a) == http' = [http EXCEPT ![a] = NoRequest]

\* EV_CONNECT: the request is written.
http_sock_connected(a) ==
    /\ http[a].st = "connecting" /\ http' = [http EXCEPT ![a].st = "connected"]

\* The empty line after the headers
http_headers_end(a) ==
    /\ http[a].st = "connected" /\ http[a].in_headers
    /\ http' = [http EXCEPT ![a].in_headers = FALSE]

\* What follows, if it is to be given to the read function when all is there
http_body(a) ==
    /\ http[a].st = "connected" /\ ~http[a].in_headers /\ http[a].buf = "empty"
    /\ \E buf \in Buffer \ {"empty", "location"} : http' = [http EXCEPT ![a].buf = buf]

\* "Location" in the headers, to a host that may be followed: all that came is dropped.
http_redirected(a) ==
    /\ http[a].st = "connected" /\ http[a].in_headers
    /\ \E st \in HTTPRequest_connect : http' = [http EXCEPT ![a] = [NoRequest EXCEPT !.st = st, !.query = http[a].query]]

\* ... and to one that may not: what comes stays in the buffer, headers and all.
http_not_redirected(a) ==
    /\ http[a].st = "connected" /\ http[a].in_headers
    /\ http' = [http EXCEPT ![a].buf = "location"]

\* A line that is no header: the owner is told of a timeout and the socket is closed.  That raises no
\* event, and so the request stays where it is, for ever.
http_invalid_header(a) ==
    /\ http[a].st = "connected" /\ http[a].in_headers
    /\ http' = [http EXCEPT ![a].st = "stuck"]

\* EV_HANGUP: all has been read.  EV_ERROR may also come before.
http_sock_hangup(a) == http[a].st = "connected" /\ HTTPRequest_free(a)
http_sock_error(a) == Open(a) /\ HTTPRequest_free(a)
-----------------------------------------------------------------------------
(* The modules that ask.                                                        *)

lookupVars == <<http, client, loaded, objects, php_cache, misled, errors>>

\* waits, done: who is to be told, and was.  answer: what is kept is the answer to this.
\* handled, request_timeout: of bitly
Object == [query : Query, http : Addr, waits : SUBSET Asker, done : SUBSET Asker,
           answer : Query \cup {"NULL"}, handled : BOOLEAN, request_timeout : BOOLEAN]

Errors == {"crash",   \* a function of an unloaded module is called
           "twin",    \* php had two requests for one function and deleted the other's object
          "evicted", \* youtube made room with an object whose request is under way
           "freed"}   \* memory that is free is used: bitly's context, or the socket of a stuck request

lookupsInit ==
    /\ httpInit
    /\ client \in Client /\ loaded = [client |-> TRUE, github |-> TRUE]
    /\ objects = <<>> /\ php_cache = {} /\ misled = {} /\ errors = {}

-----------------------------------------------------------------------------
(* Objects.                                                                    *)

\* Mutant: the oldest object with this pointer is taken.
Find_last(a) == SelectLastInSeq(objects, LAMBDA o : o.http = a)

\* google_object_find, youtube_request_find ...: the first one with this pointer; 0: none
Find(a) == SelectInSeq(objects, LAMBDA o : o.http = a)

\* dict_insert puts it first, list_add and ptrlist_add last.
Insert(o) == IF client \in {"urbandict", "bitly"} THEN Append(objects, o) ELSE <<o>> \o objects

Told(o, answer_to) == misled \cup {<<w, o.query>> : w \in {v \in o.waits : answer_to # o.query}}

-----------------------------------------------------------------------------
(* Asking.                                                                     *)

\* A new object and a request for it; bitly's has a timer.
AskNew(w, query) ==
    /\ Len(objects) < MaxObjects
    /\ \E a \in Addr :
        /\ HTTPRequest_create(a, query)
        /\ objects' = Insert([query |-> query, http |-> a, waits |-> {w}, done |-> {}, answer |-> "NULL",
                              handled |-> FALSE, request_timeout |-> client = "bitly"])
    /\ UNCHANGED <<php_cache, misled>>

\* Commands "google" and "urbandict"
google(w, query) == client = "google" /\ AskNew(w, query)
urbandict(w, query) == client = "urbandict" /\ AskNew(w, query)

\* Command "php"; settings of the language are taken to be the same everywhere.
php(w, query) ==
    /\ client = "php"
    /\ \/ query \notin php_cache /\ AskNew(w, query)
       \/ /\ query \in php_cache /\ UNCHANGED <<http, objects, php_cache, misled>>

Known(query) == SelectInSeq(objects, LAMBDA o : o.query = query)

\* A link in a channel.  An alias that is known is sent only if the object has no request, but the
\* pointer is never cleared: whoever asks for what was fetched already is not told.
tinyurl_create(w, query) ==
    /\ client = "tinyurl"
    /\ \/ Known(query) = 0 /\ AskNew(w, query)
       \/ /\ Known(query) # 0 /\ objects' = [objects EXCEPT ![Known(query)].waits = @ \cup {w}]
          /\ UNCHANGED <<http, php_cache, misled>>

\* A link in a channel: a channel is told once as long as the answer is kept.
youtube_request_create(w, query) ==
    /\ client = "youtube"
    /\ LET i == Known(query)
           known == [objects[i] EXCEPT !.waits = @ \cup ({w} \ objects[i].done)]
       IN  \/ i = 0 /\ AskNew(w, query)
           \/ /\ i # 0 /\ known.answer = "NULL" /\ objects' = [objects EXCEPT ![i] = known]
              /\ UNCHANGED <<http, php_cache, misled>>
           \/ /\ i # 0 /\ known.answer # "NULL" /\ misled' = Told(known, known.answer)
              /\ objects' = [objects EXCEPT ![i] = [known EXCEPT !.waits = {}, !.done = @ \cup known.waits]]
              /\ UNCHANGED <<http, php_cache>>

\* Command "bitly", and the web hook of github: its messages wait for their link.
bitly_shorten(w, query) == client = "bitly" /\ w # Hook /\ AskNew(w, query)
http_github(query) == client = "bitly" /\ loaded.github /\ AskNew(Hook, query)

Ask ==
    /\ loaded.client
    /\ \E query \in Query :
        \/ http_github(query)
        \/ \E w \in Asker : \/ google(w, query) \/ urbandict(w, query) \/ php(w, query)
                            \/ tinyurl_create(w, query) \/ youtube_request_create(w, query)
                            \/ bitly_shorten(w, query)
    /\ UNCHANGED <<client, loaded, errors>>

-----------------------------------------------------------------------------
(* The functions that http calls, as what they make of objects and history.    *)

S == [objects |-> objects, php_cache |-> php_cache, misled |-> misled, errors |-> errors]

\* The callback that github gave to bitly: if it is gone, the call leads nowhere.
url_shortened(s) == IF loaded.github THEN s ELSE [s EXCEPT !.errors = @ \cup {"crash"}]

bitly_finished(s, i) ==
    LET o == s.objects[i]
        t == IF o.waits = {Hook} THEN url_shortened(s) ELSE s
    IN  [t EXCEPT !.objects[i] = [@ EXCEPT !.handled = TRUE, !.request_timeout = FALSE, !.waits = {}],
                  !.misled = Told(o, http[o.http].query)]

\* Everybody who waits for the i-th object is told.
Tell(s, i) ==
    LET o == s.objects[i] IN
    [s EXCEPT !.objects[i] = [o EXCEPT !.waits = {}, !.done = @ \cup o.waits], !.misled = Told(o, http[o.http].query)]

Keep(s, i) == [s EXCEPT !.objects[i].answer = http[s.objects[i].http].query]

\* The read functions get all of the content at the end, urbandict's one line after the other.
\* google's says nothing if the channel is no longer registered, nor does php's.
google_read_func(s, i, buf, registered) == IF registered /\ buf # "odd" THEN Tell(s, i) ELSE s

urbandict_read_func(s, i) == Tell(s, i)

youtube_read_func(s, i, buf) == IF buf = "answer" THEN Tell(Keep(s, i), i) ELSE s

tinyurl_read_func(s, i, buf) ==
    IF buf = "location" THEN Tell(Keep(s, i), i) ELSE IF buf = "negative" THEN Tell(s, i) ELSE s

php_read_func(s, i, buf, registered) ==
    IF ~registered \/ buf = "odd" THEN s
    ELSE [Tell(s, i) EXCEPT !.php_cache = IF buf = "answer" THEN @ \cup {s.objects[i].query} ELSE @]

bitly_read_func(s, i) == bitly_finished(s, i)

read_func(s, a, buf, registered) ==
    LET i == Find(a)
    IN  CASE i = 0                -> s
          [] client = "google"    -> google_read_func(s, i, buf, registered)
          [] client = "urbandict" -> urbandict_read_func(s, i)
          [] client = "youtube"   -> youtube_read_func(s, i, buf)
          [] client = "tinyurl"   -> tinyurl_read_func(s, i, buf)
          [] client = "php"       -> php_read_func(s, i, buf, registered)
          [] client = "bitly"     -> bitly_read_func(s, i)

\* The event functions: the object goes, ...
object_delete(s, i) == [s EXCEPT !.objects = RemoveAt(@, i)]

\* ... unless it holds an answer that is kept; ...
youtube_event_func(s, i, hangup) == IF hangup /\ s.objects[i].answer # "NULL" THEN s ELSE object_delete(s, i)
tinyurl_event_func(s, i) == IF s.objects[i].answer # "NULL" THEN s ELSE object_delete(s, i)

\* ... php deletes by the function's name, and so perhaps another object than the one it found; ...
php_event_func(s, i) ==
    {[object_delete(s, j) EXCEPT !.errors = @ \cup (IF j # i THEN {"twin"} ELSE {})] :
        j \in {k \in DOMAIN objects : objects[k].query = objects[i].query}}

\* ... bitly has something to say if nothing was said.
bitly_event_func(s, i) == object_delete(IF s.objects[i].handled THEN s ELSE bitly_finished(s, i), i)

\* What they may come to
event_func(s, a, hangup) ==
    LET i == Find(a)
    IN  CASE i = 0              -> {s}
          [] client = "youtube" -> {youtube_event_func(s, i, hangup)}
          [] client = "tinyurl" -> {tinyurl_event_func(s, i)}
          [] client = "php"     -> php_event_func(s, i)
          [] client = "bitly"   -> {bitly_event_func(s, i)}
          [] OTHER              -> {object_delete(s, i)}

Becomes(s) ==
    objects' = s.objects /\ php_cache' = s.php_cache /\ misled' = s.misled /\ errors' = s.errors

\* If the module is gone, what is called is not there.
Call(a, s) == IF loaded.client THEN Becomes(s) ELSE Becomes([S EXCEPT !.errors = @ \cup {"crash"}])

-----------------------------------------------------------------------------
(* What comes from the network.                                                *)

Linewise == client = "urbandict"

Quiet(a) ==
    /\ \/ http_sock_connected(a) \/ http_headers_end(a)
       \/ ~Linewise /\ http_body(a)
       \/ client # "tinyurl" /\ http_redirected(a)
       \/ client = "tinyurl" /\ (http_redirected(a) \/ http_not_redirected(a))
    /\ UNCHANGED <<client, loaded, objects, php_cache, misled, errors>>

\* read_linewise: each line is given to the read function as it comes.
Line(a) ==
    /\ Linewise /\ http[a].st = "connected" /\ ~http[a].in_headers
    /\ Call(a, IF Find(a) = 0 THEN S ELSE urbandict_read_func(S, Find(a)))
    /\ UNCHANGED <<http, client, loaded>>

Hangup(a) ==
    /\ http_sock_hangup(a)
    /\ \E registered \in BOOLEAN :
        \E s \in event_func(read_func(S, a, http[a].buf, registered), a, TRUE) : Call(a, s)
    /\ UNCHANGED <<client, loaded>>

Failure(a) ==
    /\ http_sock_error(a) \/ http_invalid_header(a)
    /\ \E s \in event_func(S, a, FALSE) : Call(a, s)
    /\ UNCHANGED <<client, loaded>>

-----------------------------------------------------------------------------
(* Timers and unloading.                                                       *)

\* A context is freed before it is given to the callback, when it came with a function that frees
\* it, as the command's does.  To free a stuck request closes its socket again.
Freed(o) == IF o.waits # {Hook} \/ http[o.http].st = "stuck" THEN {"freed"} ELSE {}

bitly_timeout(i) ==
    /\ objects[i].request_timeout
    /\ LET s == bitly_finished(S, i)
       IN  Becomes([s EXCEPT !.objects = RemoveAt(@, i), !.errors = @ \cup Freed(objects[i])])
    /\ HTTPRequest_free(objects[i].http)
    /\ UNCHANGED <<client, loaded>>

\* Objects that are old, answered or not, or the newest ones when there are too many
youtube_timer(i) ==
    /\ client = "youtube" /\ objects' = RemoveAt(objects, i)
    /\ errors' = errors \cup (IF objects[i].answer = "NULL" /\ Open(objects[i].http) THEN {"evicted"} ELSE {})
    /\ UNCHANGED <<http, client, loaded, php_cache, misled>>

\* The module is disabled in a channel: it is forgotten everywhere, and may ask anew.
youtube_disable_cmod(w) ==
    /\ client = "youtube"
    /\ objects' = [i \in DOMAIN objects |-> [objects[i] EXCEPT !.waits = @ \ {w}, !.done = @ \ {w}]]
    /\ UNCHANGED <<http, client, loaded, php_cache, misled, errors>>

php_timer_func ==
    /\ client = "php" /\ loaded.client /\ \E old \in (SUBSET php_cache) \ {{}} : php_cache' = php_cache \ old
    /\ UNCHANGED <<http, client, loaded, objects, misled, errors>>

\* MODULE_FINI: objects are freed and their requests go on; bitly alone tells its askers that it
\* failed, and cancels them.
lookup_fini ==
    /\ loaded.client /\ client # "bitly"
    /\ loaded' = [loaded EXCEPT !.client = FALSE] /\ objects' = <<>> /\ php_cache' = {}
    /\ UNCHANGED <<http, client, misled, errors>>

bitly_fini ==
    /\ loaded.client /\ client = "bitly" /\ ~loaded.github
    /\ loaded' = [loaded EXCEPT !.client = FALSE] /\ objects' = <<>>
    /\ errors' = errors
           \cup (IF \E i \in DOMAIN objects : objects[i].waits = {Hook} THEN {"crash"} ELSE {})
           \cup (IF \E i \in DOMAIN objects : http[objects[i].http].st = "stuck" THEN {"freed"} ELSE {})
    /\ http' = [a \in Addr |-> IF \E i \in DOMAIN objects : objects[i].http = a THEN NoRequest ELSE http[a]]
    /\ UNCHANGED <<client, php_cache, misled>>

\* github depends on bitly and goes first; what it waits for is left.
github_fini ==
    /\ client = "bitly" /\ loaded.github /\ loaded' = [loaded EXCEPT !.github = FALSE]
    /\ UNCHANGED <<http, client, objects, php_cache, misled, errors>>

lookupsNext ==
    /\ errors = {}
    /\ \/ Ask
       \/ \E a \in Addr : Quiet(a) \/ Line(a) \/ Hangup(a) \/ Failure(a)
       \/ \E i \in DOMAIN objects : bitly_timeout(i) \/ youtube_timer(i)
       \/ \E w \in Asker : youtube_disable_cmod(w)
       \/ php_timer_func \/ lookup_fini \/ bitly_fini \/ github_fini

lookupsSpec == lookupsInit /\ [][lookupsNext]_lookupVars
-----------------------------------------------------------------------------
(* Properties.  A behaviour is followed to its first error.                    *)

LookupsTypeOK ==
    /\ \A a \in Addr : http[a].st \in {"free", "connecting", "connected", "stuck"} /\ http[a].buf \in Buffer
    /\ \A i \in DOMAIN objects : objects[i] \in Object
    /\ php_cache \subseteq Query /\ errors \subseteq Errors

\* Whoever asked is told of what he asked, although requests lie where others lay before: unless php or
\* youtube deleted the object of a request under way, which is then taken for an older one's.
AnswersRight == misled = {}

\* Somebody who waits has a request of his own that is still under way, unless its socket got lost
\* (http.c:149 and 251), the answer was there already (tinyurl.c:113), or an object was lost.
Waits(i) == objects[i].waits # {}
WaitersServed ==
    \A i \in DOMAIN objects : Waits(i) /\ errors = {} =>
        \/ http[objects[i].http].st # "free" /\ http[objects[i].http].query = objects[i].query
        \/ client = "tinyurl" /\ objects[i].answer # "NULL"

\* Nobody shares a request that is under way.
OwnRequest ==
    \A i, j \in DOMAIN objects :
        objects[i].http = objects[j].http /\ Waits(i) /\ Waits(j) /\ errors = {}
            => i = j \/ \E k \in {i, j} : objects[k].answer # "NULL"

\* bitly calls back once, in time, whatever becomes of the request.
BitlyInTime ==
    client = "bitly" => \A i \in DOMAIN objects : Waits(i) <=> objects[i].request_timeout

\* A module that is unloaded is called only by what it did not cancel; bitly is never.
Cancelled == client = "bitly" /\ ~loaded.client => \A a \in Addr : http[a].st \in {"free", "stuck"}

LookupsSound ==
    LookupsTypeOK /\ AnswersRight /\ WaitersServed /\ OwnRequest /\ BitlyInTime /\ Cancelled
=============================================================================
