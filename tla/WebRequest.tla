------------------------------ MODULE WebRequest ------------------------------
(***************************************************************************)
(* A POST to the web terminal, from the socket to the answer: what         *)
(* MixinHandler and IndexHandler of webssh's handler.py check before a     *)
(* connection is made, and what they make of the way it ends.  Origins are *)
(* compared by PrimaryDomain, the private key is read by PrivateKeys, and  *)
(* SshAuth logs in.                                                        *)
(*                                                                         *)
(* Names and addresses are in lower case, a page is a URL without a path.  *)
(* The limit on connections, and the worker that a POST registers, are in  *)
(* WebsshWorkers.                                                          *)
(***************************************************************************)
EXTENDS PrimaryDomain, PrivateKeys, SshAuth

CONSTANTS
    Family, \* sets of [setting, request, server, login], in each of which the
            \* options, the requests or the servers vary in one respect
    NoPort, \* a URL without a port
    Colon   \* the character that only the domain of an IPv6 address has

MaxPort    == 65535
Port       == 1..MaxPort
AskingPage == [scheme : {"http", "https"}, domain : Domain, port : Port]
ListedUrl  == [scheme : {"", "http", "https"}, domain : Domain, port : Port \cup {NoPort}]

Options == [ssl : BOOLEAN, redirect : BOOLEAN, fbidhttp : BOOLEAN, tdstream : BOOLEAN,
            debug : BOOLEAN, origin : {"*", "same", "primary", "list"},
            urls : SUBSET ListedUrl, reject : BOOLEAN, encoding : BOOLEAN]

ASSUME NoPortAssumption == NoPort \notin Port

Colons(name) == {j \in DOMAIN name : name[j] = Colon}

\* name.rsplit(":", 1)[0]
BeforeLastColon(name) ==
    IF Colons(name) = {} THEN name
    ELSE LET last == CHOOSE j \in Colons(name) : \A k \in Colons(name) : k <= j
         IN  SubSeq(name, 1, last - 1)

\* What is cut from an address can be compared like a name.
ASSUME CutAssumption == \A d \in Domain : BeforeLastColon(d) \in Domain

\* At most one page asks; a key is offered to the server if one was sent.
ASSUME CaseAssumption == \A cases \in Family : \A c \in cases :
    /\ c.server \in Server /\ c.login \in Credential /\ c.setting \in Options
    /\ c.request.file \in KeyFile \cup {NoFile}
    /\ c.login.key = "none" <=> c.request.file.lines = <<>>
    /\ c.request.host.domain \in Domain
    /\ \A p \in {c.request.header, c.request.event} :
          p \in Seq(AskingPage) /\ Len(p) <= 1
    /\ c.request.port \in Seq(Int) /\ Len(c.request.port) <= 1

VARIABLES
    setting,    \* the options that the process was started with
    request,    \* the POST
    pc,         \* how far it has come
    answer,
    allow,      \* the answer has the header Access-Control-Allow-Origin
    tries       \* commands that did not tell the encoding

handling == <<setting, request>>
vars == <<comparison, stream, session, setting, request, pc, answer, allow, tries>>

\* Every variable has its type.
TypeOK ==
    /\ ComparisonTypeOK
    /\ KeyTypeOK
    /\ AuthTypeOK
    /\ pc \in {"request", "origin", "compare", "arguments", "key", "connect",
               "login", "shell", "encoding", "answered"}
    /\ answer \in {"none", "forbidden", "redirect", "cross_origin",
                   "invalid_value", "not_allowed", "failed", "internal_error",
                   "connected"}
    /\ allow \in BOOLEAN
    /\ tries \in 0..2

Init ==
    /\ \E cases \in Family : \E c \in cases :
          setting = c.setting /\ request = c.request /\ server = c.server /\ login = c.login
    /\ ComparisonInit
    /\ KeyInit
    /\ AuthInit
    /\ pc = "request"
    /\ answer = "none"
    /\ allow = FALSE
    /\ tries = 0

Answer(a) == pc' = "answered" /\ answer' = a
Goto(stage) == pc' = stage /\ answer' = answer

\* An error that post does not catch: Tornado's send_error clears the headers.
Raise(a) == Answer(a) /\ allow' = FALSE

-----------------------------------------------------------------------------
(* check_request                                                             *)

\* app_listen: requests are redirected if there is something to redirect to.
Redirecting == setting.ssl /\ setting.redirect

\* A plain http request from a public address.
PlainPublic == request.protocol = "http" /\ request.peer = "public"

IsForbidden ==
    \/ setting.tdstream /\ ~ request.downstream
    \/ PlainPublic /\ ~ (Redirecting /\ ~ request.iphost) /\ setting.fbidhttp

CheckRequest ==
    /\ pc = "request"
    /\ IF IsForbidden THEN Answer("forbidden")
       ELSE IF PlainPublic /\ Redirecting /\ ~ request.iphost
       THEN Answer("redirect")
       ELSE Goto("origin")
    /\ UNCHANGED <<comparison, stream, session, handling, allow, tries>>

-----------------------------------------------------------------------------
(* check_origin.  A URL is [scheme, domain, port]; pages have all three.     *)

DefaultPort(scheme) == IF scheme = "https" THEN 443 ELSE 80

\* As browsers write it: without the default port.
BrowserOrigin(page) ==
    [scheme |-> page.scheme, domain |-> page.domain,
     port |-> IF page.port = DefaultPort(page.scheme) THEN NoPort ELSE page.port]

Netloc(url) == [domain |-> url.domain, port |-> url.port]

\* netloc.rsplit(":", 1)[0]: where there is no port it cuts an IPv6 address.
WithoutPort(netloc) ==
    IF netloc.port = NoPort THEN BeforeLastColon(netloc.domain) ELSE netloc.domain

\* Mutant: a URL of the list is taken as it is written.
ParseOriginAsIs(url) == url

ParseOriginFromUrl(url) ==
    LET scheme == IF url.scheme # "" THEN url.scheme
                  ELSE IF url.port = 443 THEN "https" ELSE "http"
    IN  [scheme |-> scheme, domain |-> url.domain,
         port |-> IF url.port = DefaultPort(scheme) THEN NoPort ELSE url.port]

\* get_origin_setting: "*", "same", "primary" or a list.
OriginPolicy == IF setting.debug THEN "*" ELSE setting.origin
OriginList   == {ParseOriginFromUrl(url) : url \in setting.urls}

\* The page that asks: the one whose message made the terminal connect, or the
\* one that the browser names.  Each is a sequence of at most one page.
Asking == IF request.event # <<>> THEN request.event ELSE request.header

Admit ==
    /\ Goto("arguments")
    /\ allow' = (Asking # <<>> /\ request.event = <<>> /\ OriginPolicy # "same")

CheckOrigin ==
    /\ pc = "origin"
    /\ IF Asking = <<>> THEN Admit /\ UNCHANGED comparison
       ELSE LET origin == BrowserOrigin(Asking[1])
            IN  IF OriginPolicy = "*" \/ Netloc(origin) = request.host
                THEN Admit /\ UNCHANGED comparison
                ELSE IF OriginPolicy = "primary"
                THEN /\ Compare(WithoutPort(Netloc(origin)), WithoutPort(request.host))
                     /\ Goto("compare")
                     /\ UNCHANGED allow
                ELSE /\ IF OriginPolicy = "list" /\ origin \in OriginList
                        THEN Admit ELSE Raise("cross_origin")
                     /\ UNCHANGED comparison
    /\ UNCHANGED <<stream, session, handling, tries>>

CompareDomains ==
    /\ pc = "compare"
    /\ CompareChar \/ EndOfLoop
    /\ UNCHANGED <<stream, session, handling, pc, answer, allow, tries>>

DomainsCompared ==
    /\ pc = "compare"
    /\ \/ same = "yes" /\ Admit
       \/ same = "no" /\ Raise("cross_origin")
    /\ UNCHANGED <<comparison, stream, session, handling, tries>>

-----------------------------------------------------------------------------
(* get_args.  A name is its labels; a port is <<>> if there is none, and any *)
(* number that is no port stands for text that is no number.                 *)

Name(labels) ==
    IF Len(labels) > 1 /\ labels[Len(labels)] = ""
    THEN SubSeq(labels, 1, Len(labels) - 1) ELSE labels

IsValidHostname(labels) ==
    LET name == Name(labels)
    IN  /\ name[Len(name)] # "number"
        /\ \A j \in DOMAIN name : name[j] \in {"word", "number"}

IsValidIp(labels) ==
    labels = <<"number", "number", "number", "number">> \/ labels = <<"ipv6">>

IsValidPort(n) == 0 < n /\ n < 65536

GetHostname == /\ request.hostname # <<>>
               /\ IsValidHostname(request.hostname) \/ IsValidIp(request.hostname)
GetPort     == request.port = <<>> \/ IsValidPort(request.port[1])

LookupHostname == setting.reject => request.known

GetArgs ==
    /\ pc = "arguments"
    /\ IF ~ (GetHostname /\ GetPort /\ request.username)
       THEN Raise("invalid_value") /\ UNCHANGED stream
       ELSE IF ~ LookupHostname
       THEN Raise("not_allowed") /\ UNCHANGED stream
       ELSE Goto("key") /\ GetPrivatekey(request.file) /\ UNCHANGED allow
    /\ UNCHANGED <<comparison, session, handling, tries>>

ReadKey ==
    /\ pc = "key"
    /\ ParseName \/ GetSpecificPkey
    /\ UNCHANGED <<comparison, session, handling, pc, answer, allow, tries>>

KeyRead ==
    /\ pc = "key"
    /\ \/ pkey = "invalid" /\ Raise("invalid_value")
       \/ pkey \in {"none", "key"} /\ Goto("connect") /\ UNCHANGED allow
    /\ UNCHANGED <<comparison, stream, session, handling, tries>>

-----------------------------------------------------------------------------
(* ssh_connect, in a thread                                                  *)

\* paramiko reports a connection that breaks as an SSHException, of which post
\* makes an answer, or as the error that broke it, such as an EOFError.
Breaks ==
    \/ Answer("failed") /\ UNCHANGED allow
    \/ Raise("internal_error")

\* The server cannot be reached, has another host key, or hangs up.
ConnectFails ==
    /\ pc = "connect"
    /\ ~ request.reachable
    /\ Breaks
    /\ UNCHANGED <<comparison, stream, session, handling, tries>>

Connect ==
    /\ pc = "connect"
    /\ request.reachable
    /\ StartAuth
    /\ Goto("login")
    /\ UNCHANGED <<comparison, stream, handling, allow, tries>>

LogIn ==
    /\ pc = "login"
    /\ AuthStep
    /\ UNCHANGED <<comparison, stream, handling, pc, answer, allow, tries>>

LoginEnds ==
    /\ pc = "login"
    /\ \/ auth \in Raised /\ Answer("failed")
       \/ auth = "returned" /\ Goto("shell")
    /\ UNCHANGED <<comparison, stream, session, handling, allow, tries>>

\* invoke_shell: the server may refuse a shell or hang up, and does so if it has
\* accepted a first factor only.
InvokeShell ==
    /\ pc = "shell"
    /\ \/ /\ Authenticated
          /\ IF setting.encoding THEN Answer("connected") ELSE Goto("encoding")
          /\ UNCHANGED allow
       \/ Breaks
    /\ UNCHANGED <<comparison, stream, session, handling, tries>>

\* Mutant: a third command.
DetectEncodingMore ==
    /\ pc = "encoding"
    /\ \/ tries <= 2 /\ tries' = tries + 1 /\ UNCHANGED <<pc, answer, allow>>
       \/ Answer("connected") /\ UNCHANGED <<allow, tries>>
       \/ Raise("internal_error") /\ UNCHANGED tries
    /\ UNCHANGED <<comparison, stream, session, handling>>

\* get_default_encoding: two commands, each of which may time out, fail or tell
\* nothing of use; then it is utf-8.  It catches what a broken connection
\* raises only if that is an SSHException.
DetectEncoding ==
    /\ pc = "encoding"
    /\ \/ tries < 2 /\ tries' = tries + 1 /\ UNCHANGED <<pc, answer, allow>>
       \/ Answer("connected") /\ UNCHANGED <<allow, tries>>
       \/ Raise("internal_error") /\ UNCHANGED tries
    /\ UNCHANGED <<comparison, stream, session, handling>>

-----------------------------------------------------------------------------

Next ==
    \/ CheckRequest \/ CheckOrigin \/ CompareDomains \/ DomainsCompared
    \/ GetArgs \/ ReadKey \/ KeyRead
    \/ ConnectFails \/ Connect \/ LogIn \/ LoginEnds \/ InvokeShell
    \/ DetectEncoding

Spec == Init /\ [][Next]_vars

-----------------------------------------------------------------------------
(* Properties *)

\* Whether the options admit the page: the terminal's own page, and pages whose
\* scheme, host and port are those of a listed URL.  What a URL of the list
\* leaves out is http, or https on port 443, and the default port.
Lists(url, page) ==
    /\ url.domain = page.domain
    /\ url.scheme \in {page.scheme, ""}
    /\ url.scheme = "" => (page.scheme = "https" <=> url.port = 443)
    /\ url.port \in {page.port} \cup (IF page.port = DefaultPort(page.scheme)
                                      THEN {NoPort} ELSE {})

OwnPage(page) == Netloc(BrowserOrigin(page)) = request.host

PageAdmitted(page) ==
    \/ OwnPage(page)
    \/ setting.debug \/ setting.origin = "*"
    \/ setting.origin = "primary" /\ SamePrimaryDomain(page.domain, request.host.domain)
    \/ setting.origin = "list" /\ \E url \in setting.urls : Lists(url, page)

Dialed == pc \in {"connect", "login", "shell", "encoding"}
          \/ answer \in {"failed", "internal_error", "connected"}

\* Under the policy "primary", one of the two hosts that are compared is an IPv6
\* address without a port, of which only the beginning is compared.
CutShort(netloc) == netloc.port = NoPort /\ Colons(netloc.domain) # {}
AddressIsCut(page) ==
    /\ OriginPolicy = "primary"
    /\ CutShort(Netloc(BrowserOrigin(page))) \/ CutShort(request.host)

\* A connection is made only for a request that the options let in, and what
\* is turned away is turned away for the reason that the answer gives: through
\* the three outcomes of the first check, the pages that ask directly and those
\* that ask by a message, default ports that are written or left out, and
\* names that are compared character by character (IPv6 addresses that are cut
\* short apart).  A page that may read the answer is one that is admitted, and
\* one from elsewhere that asks itself can, unless the answer is an error that
\* nothing catches: then the header is lost, and it cannot tell why it failed.
AdmissionIsRight ==
    /\ Dialed =>
        /\ setting.tdstream => request.downstream
        /\ setting.fbidhttp => ~ (request.protocol = "http" /\ request.peer = "public")
        /\ \A j \in DOMAIN Asking : PageAdmitted(Asking[j]) \/ AddressIsCut(Asking[j])
        /\ setting.reject => request.known
        /\ \A j \in DOMAIN request.port : request.port[j] \in Port
        /\ request.file.lines = <<>> \/ Usable(request.file)
        /\ \A j \in DOMAIN request.header :
              /\ request.event = <<>> /\ ~ OwnPage(request.header[j])
              /\ answer # "internal_error"
              => allow
    /\ answer = "redirect" =>
        request.protocol = "http" /\ request.peer = "public" /\ setting.ssl
    /\ answer = "forbidden" =>
        \/ setting.tdstream /\ ~ request.downstream
        \/ request.protocol = "http" /\ request.peer = "public" /\ setting.fbidhttp
    /\ answer = "cross_origin" =>
        \E j \in DOMAIN Asking : ~ PageAdmitted(Asking[j]) \/ AddressIsCut(Asking[j])
    /\ allow => PageAdmitted(request.header[1]) \/ AddressIsCut(request.header[1])

===============================================================================
