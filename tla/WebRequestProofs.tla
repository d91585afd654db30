--------------------------- MODULE WebRequestProofs ---------------------------
(***************************************************************************)
(* Theorems about WebRequest, for all options, requests, servers and key   *)
(* files.  A request takes the steps of its three parts, so that what is   *)
(* proved of each of them holds here.                                      *)
(***************************************************************************)
EXTENDS WebRequest, RequestPartsProofs

-----------------------------------------------------------------------------
(* WebRequest: the parts of a request                                        *)

\* What the options and the request are.
CaseInv ==
    /\ setting \in Options
    /\ request.file \in KeyFile \cup {NoFile}
    /\ request.host.domain \in Domain
    /\ request.header \in Seq(AskingPage) /\ Len(request.header) <= 1
    /\ request.event \in Seq(AskingPage) /\ Len(request.event) <= 1
    /\ request.port \in Seq(Int) /\ Len(request.port) <= 1

LEMMA CaseInit == Init => CaseInv
  BY CaseAssumption DEF Init, CaseInv

LEMMA CaseKept == CaseInv /\ UNCHANGED handling => CaseInv'
  BY DEF CaseInv, handling

LEMMA HandlingKept == [Next]_vars => UNCHANGED handling
  BY DEF Next, vars, handling, CheckRequest, CheckOrigin, CompareDomains,
     DomainsCompared, GetArgs, ReadKey, KeyRead, ConnectFails, Connect, LogIn,
     LoginEnds, InvokeShell, DetectEncoding

LEMMA AtMostOne ==
    ASSUME NEW S, NEW s \in Seq(S), Len(s) <= 1
    PROVE  /\ DOMAIN s \in {{}, {1}}
           /\ s = <<>> <=> DOMAIN s = {}
           /\ s # <<>> => s[1] \in S
  <1>1. Len(s) \in Nat /\ DOMAIN s = 1..Len(s)
    OBVIOUS
  <1>2. CASE Len(s) = 0
    BY <1>1, <1>2
  <1>3. CASE Len(s) = 1
    <2>1. DOMAIN s = {1} /\ s # <<>>
      BY <1>1, <1>3
    <2>2. 1 \in 1..Len(s)
      BY <1>3
    <2>3. s[1] \in S
      BY <2>2
    <2> QED
      BY <2>1, <2>3
  <1> QED
    BY <1>1, <1>2, <1>3

\* At most one page asks.
LEMMA OneAsks ==
    ASSUME CaseInv
    PROVE  /\ DOMAIN Asking \in {{}, {1}} /\ DOMAIN request.header \in {{}, {1}}
           /\ Asking = <<>> <=> DOMAIN Asking = {}
           /\ request.event # <<>> => Asking = request.event
           /\ request.event = <<>> => Asking = request.header
           /\ Asking # <<>> => Asking[1] \in AskingPage
  <1>1. /\ request.header \in Seq(AskingPage) /\ Len(request.header) <= 1
        /\ request.event \in Seq(AskingPage) /\ Len(request.event) <= 1
    BY DEF CaseInv
  <1> QED
    BY <1>1, AtMostOne DEF Asking

\* A request takes the steps of its parts.
LEMMA Parts ==
    ASSUME CaseInv, [Next]_vars
    PROVE  /\ [ComparisonNext]_comparison
           /\ [KeyNext]_stream
           /\ [AuthNext]_session
  <1>1. CASE UNCHANGED vars
    BY <1>1 DEF vars
  <1>2. CASE CheckRequest
    BY <1>2 DEF CheckRequest
  <1>3. CASE CheckOrigin
    <2>1. UNCHANGED comparison \/
          (Asking # <<>> /\ Compare(WithoutPort(Netloc(BrowserOrigin(Asking[1]))),
                                  WithoutPort(request.host)))
      BY <1>3 DEF CheckOrigin
    <2>2. /\ Asking # <<>> => WithoutPort(Netloc(BrowserOrigin(Asking[1]))) \in Domain
          /\ WithoutPort(request.host) \in Domain
      BY OneAsks, CutAssumption DEF BrowserOrigin, AskingPage, Netloc, WithoutPort, CaseInv
    <2>3. [ComparisonNext]_comparison
      BY <2>1, <2>2 DEF ComparisonNext, CaseInv
    <2> QED
      BY <1>3, <2>3 DEF CheckOrigin
  <1>4. CASE CompareDomains
    BY <1>4 DEF CompareDomains, ComparisonNext
  <1>5. CASE DomainsCompared
    BY <1>5 DEF DomainsCompared
  <1>6. CASE GetArgs
    <2>1. UNCHANGED stream \/ GetPrivatekey(request.file)
      BY <1>6 DEF GetArgs
    <2>2. [KeyNext]_stream
      BY <2>1 DEF KeyNext, CaseInv
    <2> QED
      BY <1>6, <2>2 DEF GetArgs
  <1>7. CASE ReadKey
    BY <1>7 DEF ReadKey, KeyNext
  <1>8. CASE KeyRead \/ ConnectFails \/ LoginEnds \/ InvokeShell \/ DetectEncoding
    BY <1>8 DEF KeyRead, ConnectFails, LoginEnds, InvokeShell, DetectEncoding
  <1>9. CASE Connect \/ LogIn
    BY <1>9 DEF Connect, LogIn, AuthNext
  <1> QED
    BY <1>1, <1>2, <1>3, <1>4, <1>5, <1>6, <1>7, <1>8, <1>9 DEF Next

LEMMA CaseInvHolds == Spec => []CaseInv
  <1>1. CaseInv /\ [Next]_vars => CaseInv'
    BY CaseKept, HandlingKept
  <1> QED
    BY <1>1, CaseInit, PTL DEF Spec

LEMMA InitParts == Init => ComparisonInit /\ KeyInit /\ AuthInit
  BY DEF Init

\* Every request compares domains, reads a key and logs in as its parts do.
THEOREM PartsImplemented == Spec => ComparisonSpec /\ KeySpec /\ AuthSpec
  BY InitParts, Parts, CaseInvHolds, PTL DEF Spec, ComparisonSpec, KeySpec, AuthSpec

\* A usable private key is read and no other is.
THEOREM UsableKeysAreReadHolds == Spec => []UsableKeysAreRead
  <1>1. KeyInv => UsableKeysAreRead
    BY DEF KeyInv
  <1> QED
    BY <1>1, PartsImplemented, KeyInvHolds, PTL

-----------------------------------------------------------------------------
(* WebRequest: what is let in                                                *)

\* The URLs of the list are compared in one form, with pages in the form that
\* browsers use.
LEMMA ListedAlike ==
    ASSUME NEW url \in ListedUrl, NEW page \in AskingPage
    PROVE  ParseOriginFromUrl(url) = BrowserOrigin(page) <=> Lists(url, page)
  <1> DEFINE scheme == IF url.scheme # "" THEN url.scheme
                       ELSE IF url.port = 443 THEN "https" ELSE "http"
             port   == IF url.port = DefaultPort(scheme) THEN NoPort ELSE url.port
             shown  == IF page.port = DefaultPort(page.scheme)
                       THEN NoPort ELSE page.port
  <1>1. /\ url.scheme \in {"", "http", "https"} /\ url.port \in Port \cup {NoPort}
        /\ page = [scheme |-> page.scheme, domain |-> page.domain, port |-> page.port]
        /\ page.scheme \in {"http", "https"} /\ page.port \in Port
    BY DEF ListedUrl, AskingPage
  <1>2. ParseOriginFromUrl(url) = [scheme |-> scheme, domain |-> url.domain, port |-> port]
    BY DEF ParseOriginFromUrl
  <1>3. BrowserOrigin(page) =
            [scheme |-> page.scheme, domain |-> page.domain, port |-> shown]
    BY DEF BrowserOrigin
  <1>4. scheme = page.scheme <=>
            /\ url.scheme \in {page.scheme, ""}
            /\ url.scheme = "" => (page.scheme = "https" <=> url.port = 443)
    BY <1>1
  <1>5. NoPort \notin Port /\ 443 \in Port /\ 80 \in Port
    <2>1. MaxPort = 65535
      BY DEF MaxPort
    <2>2. 443 \in Port /\ 80 \in Port
      BY <2>1 DEF Port
    <2> QED
      BY <2>2, NoPortAssumption
  <1>6. scheme = page.scheme =>
            (port = shown <=>
                url.port \in {page.port} \cup (IF page.port = DefaultPort(page.scheme)
                                               THEN {NoPort} ELSE {}))
    <2> SUFFICES ASSUME scheme = page.scheme
                 PROVE  port = shown <=>
                            \/ url.port = page.port
                            \/ /\ page.port = DefaultPort(page.scheme)
                               /\ url.port = NoPort
      OBVIOUS
    <2>1. /\ port = IF url.port = DefaultPort(page.scheme) THEN NoPort ELSE url.port
          /\ shown = IF page.port = DefaultPort(page.scheme) THEN NoPort ELSE page.port
      OBVIOUS
    <2>2. page.port # NoPort
      BY <1>1, <1>5
    <2> HIDE DEF scheme, port, shown
    <2>3. CASE page.port = DefaultPort(page.scheme)
      <3>1. shown = NoPort
        BY <2>1, <2>3
      <3>2. CASE url.port = page.port
        BY <2>1, <2>3, <3>1, <3>2
      <3>3. CASE url.port # page.port
        BY <2>1, <2>3, <3>1, <3>3
      <3> QED
        BY <3>2, <3>3
    <2>4. CASE page.port # DefaultPort(page.scheme)
      <3>1. shown = page.port
        BY <2>1, <2>4
      <3>2. CASE url.port = DefaultPort(page.scheme)
        BY <2>1, <2>2, <2>4, <3>1, <3>2
      <3>3. CASE url.port # DefaultPort(page.scheme)
        BY <2>1, <2>4, <3>1, <3>3
      <3> QED
        BY <3>2, <3>3
    <2> QED
      BY <2>3, <2>4
  <1> HIDE DEF scheme, port, shown
  <1>7. ParseOriginFromUrl(url) = BrowserOrigin(page) <=>
            scheme = page.scheme /\ url.domain = page.domain /\ port = shown
    BY <1>2, <1>3
  <1> QED
    BY <1>4, <1>6, <1>7 DEF Lists

\* So a page is in the list of origins if and only if a URL lists it.
LEMMA InOriginList ==
    ASSUME CaseInv, NEW page \in AskingPage
    PROVE  BrowserOrigin(page) \in OriginList
               <=> \E url \in setting.urls : Lists(url, page)
  <1>1. setting.urls \subseteq ListedUrl
    BY DEF CaseInv, Options
  <1> QED
    BY <1>1, ListedAlike DEF OriginList

MayAdmit(page)  == PageAdmitted(page) \/ AddressIsCut(page)
MayRefuse(page) == ~ PageAdmitted(page) \/ AddressIsCut(page)

AskingAdmitted == \A j \in DOMAIN Asking : MayAdmit(Asking[j])
AskingRefused  == \E j \in DOMAIN Asking : MayRefuse(Asking[j])

\* A page from elsewhere asks itself.
ElsewhereAsks == \E j \in DOMAIN request.header :
    request.event = <<>> /\ ~ OwnPage(request.header[j])

AddressAdmitted ==
    /\ setting.tdstream => request.downstream
    /\ setting.fbidhttp => ~ PlainPublic

ArgumentsAdmitted ==
    /\ setting.reject => request.known
    /\ \A j \in DOMAIN request.port : request.port[j] \in Port

KeyAdmitted == request.file.lines = <<>> \/ Usable(request.file)

HeaderAdmitted == MayAdmit(request.header[1])

LEMMA HandlingSame ==
    ASSUME UNCHANGED handling
    PROVE  /\ AskingAdmitted' = AskingAdmitted /\ ElsewhereAsks' = ElsewhereAsks
           /\ AskingRefused' = AskingRefused
           /\ AddressAdmitted' = AddressAdmitted /\ KeyAdmitted' = KeyAdmitted
           /\ ArgumentsAdmitted' = ArgumentsAdmitted
           /\ HeaderAdmitted' = HeaderAdmitted
           /\ PlainPublic' = PlainPublic
           /\ Asking' = Asking /\ OriginPolicy' = OriginPolicy
  <1> USE DEF handling
  <1>1. UNCHANGED <<setting, request, Asking, OriginPolicy, PlainPublic>>
    BY DEF PlainPublic, Asking, OriginPolicy
  <1>2. \A page : OwnPage(page)' = OwnPage(page)
    BY DEF OwnPage, Netloc, BrowserOrigin
  <1>3. \A page : PageAdmitted(page)' = PageAdmitted(page)
    BY DEF PageAdmitted, OwnPage, Netloc, BrowserOrigin
  <1>4. \A page : AddressIsCut(page)' = AddressIsCut(page)
    BY DEF AddressIsCut, OriginPolicy, CutShort, Netloc, BrowserOrigin
  <1>5. /\ \A page : MayAdmit(page)' = MayAdmit(page)
        /\ \A page : MayRefuse(page)' = MayRefuse(page)
    BY <1>3, <1>4 DEF MayAdmit, MayRefuse
  <1>6. /\ AskingAdmitted' = AskingAdmitted /\ AskingRefused' = AskingRefused
        /\ HeaderAdmitted' = HeaderAdmitted /\ ElsewhereAsks' = ElsewhereAsks
    BY <1>1, <1>2, <1>5 DEF AskingAdmitted, AskingRefused, HeaderAdmitted, ElsewhereAsks
  <1>7. /\ AddressAdmitted' = AddressAdmitted /\ KeyAdmitted' = KeyAdmitted
        /\ ArgumentsAdmitted' = ArgumentsAdmitted
    BY <1>1 DEF AddressAdmitted, ArgumentsAdmitted, KeyAdmitted, Usable
  <1> QED
    BY <1>1, <1>6, <1>7

\* How far the request has come.
PastRequest == pc # "request" /\ answer \notin {"forbidden", "redirect"}
PastOrigin ==
    /\ pc \notin {"request", "origin", "compare"}
    /\ answer \notin {"forbidden", "redirect", "cross_origin"}

\* Answers that lose the header.
Raises == {"invalid_value", "not_allowed", "internal_error"}

\* While the domains are compared, they are those of the page and of the host,
\* and the result decides.
Comparing ==
    /\ domain1 = WithoutPort(Netloc(BrowserOrigin(Asking[1])))
    /\ domain2 = WithoutPort(request.host)
    /\ Asking # <<>> /\ OriginPolicy = "primary"
    /\ ~ OwnPage(Asking[1])

WebTypeOK ==
    /\ pc \in {"request", "origin", "compare", "arguments", "key", "connect",
               "login", "shell", "encoding", "answered"}
    /\ answer \in {"none", "forbidden", "redirect", "cross_origin",
                   "invalid_value", "not_allowed", "failed", "internal_error",
                   "connected"}
    /\ allow \in BOOLEAN
    /\ tries \in 0..2
    /\ pc = "answered" <=> answer # "none"

\* What every stage knows of the request.
Flow ==
    /\ answer = "redirect" => PlainPublic /\ setting.ssl
    /\ answer = "forbidden" => ~ AddressAdmitted
    /\ answer = "cross_origin" => AskingRefused
    /\ PastRequest => AddressAdmitted
    /\ PastOrigin => AskingAdmitted
    /\ PastOrigin /\ answer \notin Raises => (ElsewhereAsks => allow)
    /\ pc = "compare" => Comparing
    /\ allow => HeaderAdmitted
    /\ pc = "key" \/ Dialed => ArgumentsAdmitted
    /\ pc = "key" => file = request.file
    /\ Dialed => KeyAdmitted

WebInv == CaseInv /\ WebTypeOK /\ Flow

LEMMA WebInitInv == Init => WebInv
  <1> SUFFICES ASSUME Init PROVE WebInv
    OBVIOUS
  <1>1. pc = "request" /\ answer = "none" /\ allow = FALSE /\ tries = 0
    BY DEF Init
  <1>2. WebTypeOK
    <2>1. allow \in BOOLEAN
      BY <1>1, Zenon
    <2>2. tries \in 0..2
      BY <1>1
    <2> QED
      BY <1>1, <2>1, <2>2, Zenon DEF WebTypeOK
  <1>3. Flow
    BY <1>1 DEF Flow, PastRequest, PastOrigin, Dialed
  <1> QED
    BY <1>2, <1>3, CaseInit DEF WebInv

LEMMA CheckRequestInv == WebInv /\ CheckRequest => WebInv'
  <1> SUFFICES ASSUME WebInv, CheckRequest PROVE WebInv'
    OBVIOUS
  <1>1. /\ UNCHANGED handling /\ CaseInv' /\ allow' = allow /\ tries' = tries
        /\ pc = "request" /\ answer = "none" /\ WebTypeOK
        /\ allow => HeaderAdmitted
    BY CaseKept DEF WebInv, CheckRequest, WebTypeOK, Flow
  <1>2. /\ AddressAdmitted' = AddressAdmitted /\ PlainPublic' = PlainPublic
        /\ HeaderAdmitted' = HeaderAdmitted /\ setting' = setting
    BY <1>1, HandlingSame DEF handling
  <1>3. \/ IsForbidden /\ pc' = "answered" /\ answer' = "forbidden"
        \/ /\ PlainPublic /\ Redirecting
           /\ ~ IsForbidden
           /\ pc' = "answered" /\ answer' = "redirect"
        \/ /\ ~ IsForbidden /\ ~ (PlainPublic /\ Redirecting /\ ~ request.iphost)
           /\ pc' = "origin" /\ answer' = answer
    BY DEF CheckRequest, Answer, Goto
  <1>4. IsForbidden => ~ AddressAdmitted
    BY DEF IsForbidden, AddressAdmitted
  <1>5. ~ IsForbidden /\ ~ (PlainPublic /\ Redirecting /\ ~ request.iphost)
            => AddressAdmitted
    BY DEF IsForbidden, AddressAdmitted
  <1>6. WebTypeOK'
    BY <1>1, <1>3 DEF WebTypeOK
  <1>7. Flow'
    BY <1>1, <1>2, <1>3, <1>4, <1>5
    DEF Flow, PastRequest, PastOrigin, Dialed, Redirecting
  <1> QED
    BY <1>1, <1>6, <1>7 DEF WebInv

\* What the code makes of a page.
Matches(page) ==
    \/ OwnPage(page)
    \/ OriginPolicy = "*"
    \/ /\ OriginPolicy = "primary"
       /\ SamePrimaryDomain(WithoutPort(Netloc(BrowserOrigin(page))),
                            WithoutPort(request.host))
    \/ OriginPolicy = "list" /\ BrowserOrigin(page) \in OriginList

\* An address that is not cut is compared as it is.
LEMMA WholeNames ==
    ASSUME NEW page \in AskingPage, OriginPolicy = "primary", ~ AddressIsCut(page)
    PROVE  /\ WithoutPort(Netloc(BrowserOrigin(page))) = page.domain
           /\ WithoutPort(request.host) = request.host.domain
  <1>1. \A netloc : ~ CutShort(netloc) => WithoutPort(netloc) = netloc.domain
    BY DEF CutShort, WithoutPort, BeforeLastColon
  <1>2. Netloc(BrowserOrigin(page)).domain = page.domain
    BY DEF Netloc, BrowserOrigin
  <1> QED
    BY <1>1, <1>2 DEF AddressIsCut

\* Which page is admitted, in terms of the code.
LEMMA AdmittedPages ==
    ASSUME CaseInv, Asking # <<>>
    PROVE  IF Matches(Asking[1]) THEN MayAdmit(Asking[1]) ELSE MayRefuse(Asking[1])
  <1>. DEFINE page == Asking[1]
  <1>1. Asking[1] \in AskingPage
    BY OneAsks
  <1>2. BrowserOrigin(page) \in OriginList <=> \E url \in setting.urls : Lists(url, page)
    BY <1>1, InOriginList
  <1>3. setting.debug \in BOOLEAN
    BY DEF CaseInv, Options
  <1>4. AddressIsCut(page) => MayAdmit(page) /\ MayRefuse(page)
    BY DEF MayAdmit, MayRefuse
  <1>5. ASSUME ~ AddressIsCut(page) PROVE Matches(page) <=> PageAdmitted(page)
    <2>1. OriginPolicy = "primary" =>
            /\ WithoutPort(Netloc(BrowserOrigin(page))) = page.domain
            /\ WithoutPort(request.host) = request.host.domain
      BY <1>1, <1>5, WholeNames
    <2>2. CASE setting.debug
      BY <2>2 DEF PageAdmitted, OriginPolicy, Matches
    <2>3. CASE ~ setting.debug
      <3>1. OriginPolicy = setting.origin
        BY <2>3 DEF OriginPolicy
      <3> QED
        BY <1>2, <2>1, <2>3, <3>1 DEF PageAdmitted, Matches
    <2> QED
      BY <1>3, <2>2, <2>3
  <1> QED
    BY <1>4, <1>5 DEF MayAdmit, MayRefuse

LEMMA AskingIsOne ==
    ASSUME CaseInv
    PROVE  /\ AskingAdmitted <=> (Asking = <<>> \/ MayAdmit(Asking[1]))
           /\ AskingRefused <=> (Asking # <<>> /\ MayRefuse(Asking[1]))
           /\ ElsewhereAsks =>
                Asking # <<>> /\ request.event = <<>> /\ ~ OwnPage(Asking[1])
           /\ Asking # <<>> /\ request.event = <<>> /\ MayAdmit(Asking[1])
                => HeaderAdmitted
  <1>1. /\ AskingAdmitted <=> (Asking = <<>> \/ MayAdmit(Asking[1]))
        /\ AskingRefused <=> (Asking # <<>> /\ MayRefuse(Asking[1]))
    BY OneAsks DEF AskingAdmitted, AskingRefused
  <1>2. ASSUME ElsewhereAsks
        PROVE  Asking # <<>> /\ request.event = <<>> /\ ~ OwnPage(Asking[1])
    BY <1>2, OneAsks DEF ElsewhereAsks
  <1>3. request.event = <<>> => Asking = request.header
    BY DEF Asking
  <1> QED
    BY <1>1, <1>2, <1>3 DEF HeaderAdmitted

\* What is let in is let in with the header that it needs.
LEMMA AdmitInv ==
    ASSUME WebInv, pc \in {"origin", "compare"}, Admit,
           Asking # <<>> => Matches(Asking[1]),
           UNCHANGED <<handling, tries>>
    PROVE  WebInv'
  <1>1. /\ CaseInv /\ CaseInv' /\ WebTypeOK /\ AddressAdmitted
        /\ answer = "none" /\ answer' = "none" /\ pc' = "arguments"
        /\ UNCHANGED handling /\ tries' = tries
        /\ allow' = (Asking # <<>> /\ request.event = <<>> /\ OriginPolicy # "same")
    BY CaseKept DEF WebInv, Admit, Goto, WebTypeOK, Flow, PastRequest
  <1>2. /\ AskingAdmitted' = AskingAdmitted /\ ElsewhereAsks' = ElsewhereAsks
        /\ AddressAdmitted' = AddressAdmitted /\ HeaderAdmitted' = HeaderAdmitted
    BY <1>1, HandlingSame
  <1>3. AskingAdmitted /\ (allow' => HeaderAdmitted)
    BY <1>1, AskingIsOne, AdmittedPages
  <1>4. ElsewhereAsks => allow'
    BY <1>1, AskingIsOne DEF Matches
  <1>5. allow' \in BOOLEAN
    BY <1>1
  <1>6. WebTypeOK'
    BY <1>1, <1>5 DEF WebTypeOK
  <1>7. Flow'
    BY <1>1, <1>2, <1>3, <1>4 DEF Flow, PastRequest, PastOrigin, Dialed
  <1> QED
    BY <1>1, <1>6, <1>7 DEF WebInv

LEMMA RefuseInv ==
    ASSUME WebInv, pc \in {"origin", "compare"}, Raise("cross_origin"),
           Asking # <<>>, ~ Matches(Asking[1]), UNCHANGED <<handling, tries>>
    PROVE  WebInv'
  <1>1. /\ CaseInv' /\ WebTypeOK /\ AddressAdmitted
        /\ answer' = "cross_origin" /\ pc' = "answered"
        /\ UNCHANGED handling /\ tries' = tries /\ allow' = FALSE /\ CaseInv
    BY CaseKept DEF WebInv, Raise, Answer, WebTypeOK, Flow, PastRequest
  <1>2. AskingRefused' /\ AddressAdmitted' = AddressAdmitted
    BY <1>1, HandlingSame, AskingIsOne, AdmittedPages
  <1>3. WebTypeOK'
    BY <1>1 DEF WebTypeOK
  <1>4. Flow'
    BY <1>1, <1>2 DEF Flow, PastRequest, PastOrigin, Dialed
  <1> QED
    BY <1>1, <1>3, <1>4 DEF WebInv

LEMMA CheckOriginInv == WebInv /\ CheckOrigin => WebInv'
  <1> SUFFICES ASSUME WebInv, CheckOrigin PROVE WebInv'
    OBVIOUS
  <1> DEFINE origin == BrowserOrigin(Asking[1])
  <1>1. pc = "origin" /\ UNCHANGED <<handling, tries>> /\ CaseInv
    BY DEF CheckOrigin, WebInv
  <1>2. OwnPage(Asking[1]) <=> Netloc(origin) = request.host
    BY DEF OwnPage
  <1>3. CASE Asking = <<>>
    BY <1>1, <1>3, AdmitInv DEF CheckOrigin
  <1>4. CASE Asking # <<>> /\ (OriginPolicy = "*" \/ OwnPage(Asking[1]))
    <2>1. Admit
      BY <1>2, <1>4 DEF CheckOrigin
    <2>2. Matches(Asking[1])
      BY <1>4 DEF Matches
    <2> QED
      BY <1>1, <2>1, <2>2, AdmitInv
  <1>5. CASE /\ Asking # <<>> /\ OriginPolicy = "primary"
             /\ ~ OwnPage(Asking[1])
    <2>1. /\ Compare(WithoutPort(Netloc(origin)), WithoutPort(request.host))
          /\ pc' = "compare" /\ answer' = answer /\ allow' = allow
      BY <1>2, <1>5 DEF CheckOrigin, Goto
    <2>2. domain1' = WithoutPort(Netloc(origin)) /\ domain2' = WithoutPort(request.host)
      BY <2>1 DEF Compare
    <2>3. /\ CaseInv' /\ WebTypeOK /\ AddressAdmitted /\ answer = "none"
          /\ allow => HeaderAdmitted
      BY <1>1, CaseKept DEF WebInv, WebTypeOK, Flow, PastRequest
    <2>4. /\ AddressAdmitted' = AddressAdmitted /\ HeaderAdmitted' = HeaderAdmitted
          /\ Asking' = Asking /\ OriginPolicy' = OriginPolicy /\ request' = request
      BY <1>1, HandlingSame DEF handling
    <2>5. WebTypeOK'
      BY <1>1, <2>1, <2>3 DEF WebTypeOK
    <2>6. Comparing'
      BY <1>5, <2>2, <2>4 DEF Comparing, OwnPage, Netloc, BrowserOrigin, WithoutPort
    <2>7. Flow'
      BY <2>1, <2>3, <2>4, <2>6 DEF Flow, PastRequest, PastOrigin, Dialed
    <2> QED
      BY <2>3, <2>5, <2>7 DEF WebInv
  <1>6. CASE /\ Asking # <<>> /\ OriginPolicy \notin {"*", "primary"}
             /\ ~ OwnPage(Asking[1])
    <2>1. Matches(Asking[1]) <=> OriginPolicy = "list" /\ origin \in OriginList
      BY <1>6 DEF Matches
    <2>2. IF OriginPolicy = "list" /\ origin \in OriginList
          THEN Admit ELSE Raise("cross_origin")
      BY <1>2, <1>6 DEF CheckOrigin
    <2> QED
      BY <1>1, <1>6, <2>1, <2>2, AdmitInv, RefuseInv
  <1> QED
    BY <1>3, <1>4, <1>5, <1>6

LEMMA CompareDomainsInv == WebInv /\ CompareDomains => WebInv'
  <1> SUFFICES ASSUME WebInv, CompareDomains PROVE WebInv'
    OBVIOUS
  <1>1. /\ UNCHANGED handling /\ CaseInv' /\ pc' = pc /\ pc = "compare"
        /\ answer' = answer /\ allow' = allow /\ tries' = tries
        /\ domain1' = domain1 /\ domain2' = domain2
        /\ WebTypeOK /\ Comparing /\ AddressAdmitted /\ answer = "none"
        /\ allow => HeaderAdmitted
    BY CaseKept
    DEF WebInv, CompareDomains, CompareChar, EndOfLoop, WebTypeOK, Flow, PastRequest
  <1>2. /\ AddressAdmitted' = AddressAdmitted /\ HeaderAdmitted' = HeaderAdmitted
        /\ Asking' = Asking /\ OriginPolicy' = OriginPolicy /\ request' = request
    BY <1>1, HandlingSame DEF handling
  <1>3. WebTypeOK'
    BY <1>1 DEF WebTypeOK
  <1>4. Comparing'
    BY <1>1, <1>2 DEF Comparing, OwnPage, Netloc, BrowserOrigin, WithoutPort
  <1>5. Flow'
    BY <1>1, <1>2, <1>4 DEF Flow, PastRequest, PastOrigin, Dialed
  <1> QED
    BY <1>1, <1>3, <1>5 DEF WebInv

\* The result of the comparison decides.
LEMMA DomainsComparedInv ==
    WebInv /\ ComparesPrimaryDomains /\ DomainsCompared => WebInv'
  <1> SUFFICES ASSUME WebInv, ComparesPrimaryDomains, DomainsCompared PROVE WebInv'
    OBVIOUS
  <1>1. /\ UNCHANGED <<handling, tries>> /\ pc = "compare" /\ Comparing /\ CaseInv
    BY DEF WebInv, DomainsCompared, Flow
  <1>2. Asking # <<>> /\ (Matches(Asking[1]) <=> SamePrimaryDomain(domain1, domain2))
    BY <1>1 DEF Comparing, Matches
  <1>3. CASE same = "yes" /\ Admit
    BY <1>1, <1>2, <1>3, AdmitInv DEF ComparesPrimaryDomains
  <1>4. CASE same = "no" /\ Raise("cross_origin")
    BY <1>1, <1>2, <1>4, RefuseInv DEF ComparesPrimaryDomains
  <1> QED
    BY <1>3, <1>4 DEF DomainsCompared

\* The stages after the page was let in, and the answers that they give.
Later == {"arguments", "key", "connect", "login", "shell", "encoding"}

\* What a step at such a stage must establish.
LEMMA LaterInv ==
    ASSUME WebInv, pc \in Later, UNCHANGED handling, tries' \in 0..2,
           \/ pc' \in Later /\ answer' = answer /\ UNCHANGED allow
           \/ pc' = "answered" /\ answer' \in {"failed", "connected"} /\ UNCHANGED allow
           \/ pc' = "answered" /\ answer' \in Raises /\ allow' = FALSE,
           pc' = "key" \/ Dialed' => ArgumentsAdmitted,
           pc' = "key" => file' = request.file,
           Dialed' => KeyAdmitted
    PROVE  WebInv'
  <1>1. /\ UNCHANGED handling /\ CaseInv' /\ WebTypeOK /\ answer = "none"
        /\ AddressAdmitted /\ AskingAdmitted /\ (ElsewhereAsks => allow)
        /\ allow => HeaderAdmitted
        /\ request' = request
    BY CaseKept
    DEF WebInv, WebTypeOK, Flow, PastRequest, PastOrigin, Later, Raises, handling
  <1>2. /\ AskingAdmitted' = AskingAdmitted /\ ElsewhereAsks' = ElsewhereAsks
        /\ AddressAdmitted' = AddressAdmitted /\ KeyAdmitted' = KeyAdmitted
        /\ ArgumentsAdmitted' = ArgumentsAdmitted
        /\ HeaderAdmitted' = HeaderAdmitted
    BY <1>1, HandlingSame
  <1>3. WebTypeOK'
    <2>1. allow' \in BOOLEAN
      BY <1>1 DEF WebTypeOK
    <2> QED
      BY <1>1, <2>1 DEF WebTypeOK, Later, Raises
  <1>4. Flow'
    BY <1>1, <1>2 DEF Flow, PastRequest, PastOrigin, Later, Raises
  <1> QED
    BY <1>1, <1>3, <1>4 DEF WebInv

LEMMA ValidPorts ==
    ASSUME NEW n \in Int, IsValidPort(n)
    PROVE  n \in Port
  <1>1. MaxPort \in Int /\ 1 <= n /\ n <= MaxPort
    BY DEF IsValidPort, MaxPort
  <1> QED
    BY <1>1 DEF Port

LEMMA GetArgsInv == WebInv /\ GetArgs => WebInv'
  <1> SUFFICES ASSUME WebInv, GetArgs PROVE WebInv'
    OBVIOUS
  <1>1. /\ pc = "arguments" /\ UNCHANGED handling /\ tries' = tries
        /\ tries \in 0..2 /\ CaseInv
    BY DEF GetArgs, WebInv, WebTypeOK
  <1>2. CASE Raise("invalid_value") \/ Raise("not_allowed")
    <2>1. ~ Dialed'
      BY <1>2 DEF Dialed, Raise, Answer
    <2> QED
      BY <1>1, <1>2, <2>1, LaterInv DEF Later, Raises, Raise, Answer
  <1>3. CASE /\ GetPort /\ LookupHostname /\ GetPrivatekey(request.file)
             /\ pc' = "key" /\ answer' = answer /\ UNCHANGED allow
    <2>1. \A j \in DOMAIN request.port : request.port[j] \in Port
      <3>1. DOMAIN request.port \in {{}, {1}}
        BY <1>1, AtMostOne DEF CaseInv
      <3>2. request.port # <<>> /\ DOMAIN request.port # {} => request.port[1] \in Int
        BY <1>1, AtMostOne DEF CaseInv
      <3>3. ASSUME NEW j \in DOMAIN request.port PROVE request.port[j] \in Port
        <4>1. j = 1 /\ request.port # <<>> /\ request.port[1] \in Int
          BY <3>1, <3>2, <3>3
        <4>2. IsValidPort(request.port[1])
          BY <1>3, <4>1 DEF GetPort
        <4> QED
          BY <4>1, <4>2, ValidPorts
      <3> QED
        BY <3>3
    <2>2. ArgumentsAdmitted
      BY <1>3, <2>1 DEF ArgumentsAdmitted, LookupHostname
    <2>3. answer = "none" /\ file' = request.file
      BY <1>1, <1>3 DEF WebInv, WebTypeOK, GetPrivatekey
    <2>4. ~ Dialed'
      BY <1>3, <2>3 DEF Dialed
    <2> QED
      BY <1>1, <1>3, <2>2, <2>3, <2>4, LaterInv DEF Later, Raises
  <1> QED
    BY <1>2, <1>3 DEF GetArgs, Goto

LEMMA ReadKeyInv == WebInv /\ ReadKey => WebInv'
  <1> SUFFICES ASSUME WebInv, ReadKey PROVE WebInv'
    OBVIOUS
  <1>1. /\ pc = "key" /\ UNCHANGED <<handling, allow>> /\ tries' = tries
        /\ pc' = pc /\ answer' = answer /\ file' = file
        /\ tries \in 0..2 /\ answer = "none" /\ ArgumentsAdmitted
        /\ file = request.file
    BY DEF ReadKey, WebInv, WebTypeOK, ParseName, GetSpecificPkey, Flow
  <1>2. ~ Dialed'
    BY <1>1 DEF Dialed
  <1> QED
    BY <1>1, <1>2, LaterInv DEF Later, Raises

\* A connection is made without a key or with one that can be used.
LEMMA KeyReadInv == WebInv /\ KeyInv /\ KeyRead => WebInv'
  <1> SUFFICES ASSUME WebInv, KeyInv, KeyRead PROVE WebInv'
    OBVIOUS
  <1>1. /\ pc = "key" /\ UNCHANGED handling /\ tries' = tries
        /\ tries \in 0..2 /\ answer = "none" /\ ArgumentsAdmitted
        /\ file = request.file
    BY DEF KeyRead, WebInv, WebTypeOK, Flow
  <1>2. CASE Raise("invalid_value")
    <2>1. ~ Dialed'
      BY <1>2 DEF Dialed, Raise, Answer
    <2> QED
      BY <1>1, <1>2, <2>1, LaterInv DEF Later, Raises, Raise, Answer
  <1>3. CASE /\ pkey \in {"none", "key"} /\ pc' = "connect" /\ answer' = answer
             /\ UNCHANGED allow
    <2>1. KeyAdmitted
      BY <1>1, <1>3 DEF KeyInv, UsableKeysAreRead, KeyAdmitted
    <2> QED
      BY <1>1, <1>3, <2>1, LaterInv DEF Later, Raises
  <1> QED
    BY <1>2, <1>3 DEF KeyRead, Goto

\* The connection, the login and what follows change nothing of that.
LEMMA ConnectedInv ==
    ASSUME WebInv,
           ConnectFails \/ Connect \/ LogIn \/ LoginEnds \/ InvokeShell \/ DetectEncoding
    PROVE  WebInv'
  <1>1. /\ pc \in {"connect", "login", "shell", "encoding"}
        /\ UNCHANGED handling /\ tries' \in 0..2
        /\ \/ /\ pc' \in {"login", "shell", "encoding"} /\ answer' = answer
              /\ UNCHANGED allow
           \/ /\ pc' = "answered" /\ answer' \in {"failed", "connected"}
              /\ UNCHANGED allow
           \/ pc' = "answered" /\ answer' = "internal_error" /\ allow' = FALSE
    <2>1. tries \in 0..2
      BY DEF WebInv, WebTypeOK
    <2> QED
      BY <2>1 DEF ConnectFails, Connect, LogIn, LoginEnds, InvokeShell, DetectEncoding,
         Answer, Goto, Raise, Breaks
  <1>2. Dialed /\ ArgumentsAdmitted /\ KeyAdmitted
    BY <1>1 DEF Dialed, WebInv, Flow
  <1> QED
    BY <1>1, <1>2, LaterInv DEF Later, Raises

\* The invariant is inductive.
LEMMA WebInductive ==
    WebInv /\ ComparesPrimaryDomains /\ KeyInv /\ [Next]_vars => WebInv'
  <1> SUFFICES ASSUME WebInv, ComparesPrimaryDomains, KeyInv, [Next]_vars PROVE WebInv'
    OBVIOUS
  <1>1. CASE UNCHANGED vars
    <2>1. /\ UNCHANGED <<handling, comparison, stream>>
          /\ pc' = pc /\ answer' = answer /\ allow' = allow /\ tries' = tries
      BY <1>1 DEF vars, handling
    <2>2. /\ AskingAdmitted' = AskingAdmitted /\ ElsewhereAsks' = ElsewhereAsks
          /\ AskingRefused' = AskingRefused
          /\ AddressAdmitted' = AddressAdmitted /\ KeyAdmitted' = KeyAdmitted
          /\ ArgumentsAdmitted' = ArgumentsAdmitted
          /\ HeaderAdmitted' = HeaderAdmitted /\ PlainPublic' = PlainPublic
          /\ Asking' = Asking /\ OriginPolicy' = OriginPolicy
          /\ setting' = setting /\ request' = request
      BY <2>1, HandlingSame DEF handling
    <2>3. Comparing' = Comparing
      BY <2>1, <2>2 DEF Comparing, OwnPage, Netloc, BrowserOrigin, WithoutPort, comparison
    <2>4. CaseInv' /\ WebTypeOK'
      BY <2>1, CaseKept DEF WebInv, WebTypeOK
    <2>5. Flow'
      BY <2>1, <2>2, <2>3 DEF WebInv, Flow, PastRequest, PastOrigin, Dialed, stream
    <2> QED
      BY <2>4, <2>5 DEF WebInv
  <1> QED
    BY <1>1, CheckRequestInv, CheckOriginInv, CompareDomainsInv, DomainsComparedInv,
       GetArgsInv, ReadKeyInv, KeyReadInv, ConnectedInv
    DEF Next

LEMMA WebInvHolds == Spec => []WebInv
  BY WebInitInv, WebInductive, PartsImplemented, ComparesPrimaryDomainsHolds,
     KeyInvHolds, PTL
  DEF Spec

-----------------------------------------------------------------------------

\* Type correctness of a request and of its parts.
THEOREM RequestTypeCorrect == Spec => []TypeOK
  <1>1. WebInv /\ ComparisonTypeOK /\ KeyInv /\ AuthTypeOK => TypeOK
    BY DEF WebInv, WebTypeOK, KeyInv, TypeOK
  <1> QED
    BY <1>1, WebInvHolds, PartsImplemented, ComparisonTypeCorrect, KeyInvHolds,
       AuthTypeCorrect, PTL

\* Connections are made only for requests that the options let in, and what is
\* turned away is turned away for the reason of its answer.
THEOREM AdmissionIsRightHolds == Spec => []AdmissionIsRight
  <1>1. WebInv => AdmissionIsRight
    <2> SUFFICES ASSUME WebInv PROVE AdmissionIsRight
      OBVIOUS
    <2>1. Dialed => PastRequest /\ PastOrigin
      BY DEF WebInv, WebTypeOK, Dialed, PastRequest, PastOrigin
    <2>2. ElsewhereAsks <=> \E j \in DOMAIN request.header :
                request.event = <<>> /\ ~ OwnPage(request.header[j])
      BY DEF ElsewhereAsks
    <2>3. Dialed =>
            /\ AddressAdmitted /\ AskingAdmitted
            /\ answer # "internal_error" => (ElsewhereAsks => allow)
            /\ ArgumentsAdmitted /\ KeyAdmitted
      BY <2>1 DEF WebInv, Flow, Raises, Dialed, WebTypeOK
    <2>4. Dialed =>
            /\ setting.tdstream => request.downstream
            /\ setting.fbidhttp => ~ (request.protocol = "http" /\ request.peer = "public")
            /\ \A j \in DOMAIN Asking : PageAdmitted(Asking[j]) \/ AddressIsCut(Asking[j])
            /\ setting.reject => request.known
            /\ \A j \in DOMAIN request.port : request.port[j] \in Port
            /\ request.file.lines = <<>> \/ Usable(request.file)
      BY <2>3 DEF AddressAdmitted, AskingAdmitted, ArgumentsAdmitted, KeyAdmitted,
         PlainPublic, MayAdmit
    <2>5. Dialed => \A j \in DOMAIN request.header :
            /\ request.event = <<>> /\ ~ OwnPage(request.header[j])
            /\ answer # "internal_error"
            => allow
      BY <2>2, <2>3
    <2>6. /\ answer = "redirect" =>
                request.protocol = "http" /\ request.peer = "public" /\ setting.ssl
          /\ answer = "forbidden" =>
                \/ setting.tdstream /\ ~ request.downstream
                \/ request.protocol = "http" /\ request.peer = "public" /\ setting.fbidhttp
      BY DEF WebInv, Flow, AddressAdmitted, PlainPublic
    <2>7. answer = "cross_origin" =>
            \E j \in DOMAIN Asking : ~ PageAdmitted(Asking[j]) \/ AddressIsCut(Asking[j])
      BY DEF WebInv, Flow, AskingRefused, MayRefuse
    <2>8. allow => PageAdmitted(request.header[1]) \/ AddressIsCut(request.header[1])
      BY DEF WebInv, Flow, HeaderAdmitted, MayAdmit
    <2> QED
      BY <2>4, <2>5, <2>6, <2>7, <2>8, Zenon DEF AdmissionIsRight
  <1> QED
    BY <1>1, WebInvHolds, PTL

===============================================================================
