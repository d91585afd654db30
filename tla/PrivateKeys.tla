----------------------------- MODULE PrivateKeys -----------------------------
(***************************************************************************)
(* PrivateKey of webssh's handler.py: which class of paramiko can read the *)
(* private key of a request.  The text is a stream: the search for the     *)
(* header and every attempt to load the key move it, and the header may be *)
(* anywhere in it.                                                         *)
(*                                                                         *)
(* A line is the tag between BEGIN and PRIVATE KEY, or "text".  The class  *)
(* of an OPENSSH key is inside of it.                                      *)
(***************************************************************************)
EXTENDS Integers, Sequences

CONSTANT KeyFile    \* the private keys that users may send

VARIABLES
    file,   \* [lines, type, encrypted, passphrase]: the arguments
    pos,    \* the next line that the stream would read
    offset, \* the line of the header
    names,  \* the classes that are still to be tried
    pkey    \* "idle", "parse", "try", or the result: "none", "key", "invalid"

stream == <<file, pos, offset, names, pkey>>

Tags  == {"RSA", "DSA", "EC", "OPENSSH"}
Types == {"RSA", "DSS", "ECDSA", "Ed25519"}

ASSUME KeyFileAssumption == \A f \in KeyFile :
    /\ DOMAIN f = {"lines", "type", "encrypted", "passphrase"}
    /\ f.lines \in Seq({"RSA", "DSA", "EC", "OPENSSH", "OTHER", "text"})
    /\ f.type \in Types
    /\ f.encrypted \in BOOLEAN
    /\ f.passphrase \in {"", "right", "wrong"}

NoFile == [lines |-> <<>>, type |-> "RSA", encrypted |-> FALSE, passphrase |-> ""]

\* What may be left to be tried.
ToTry == {<<>>} \cup {<<t>> : t \in Types}
         \cup {<<"Ed25519", "RSA", "ECDSA", "DSS">>, <<"RSA", "ECDSA", "DSS">>,
               <<"ECDSA", "DSS">>}

\* Every variable has its type.
KeyTypeOK ==
    /\ file \in KeyFile \cup {NoFile}
    /\ pos \in 1..Len(file.lines) + 1
    /\ offset \in 0..Len(file.lines)
    /\ names \in ToTry
    /\ pkey \in {"idle", "parse", "try", "none", "key", "invalid"}

KeyInit ==
    /\ file = NoFile
    /\ pos = 1
    /\ offset = 0
    /\ names = <<>>
    /\ pkey = "idle"

-----------------------------------------------------------------------------

\* The first line of s from n on that has one of the four tags, 0 if none has.
HeaderFrom(s, n) ==
    LET found == {j \in n..Len(s) : s[j] \in Tags}
    IN  IF found = {} THEN 0 ELSE CHOOSE j \in found : \A k \in found : j <= k

TagToName(tag) ==
    CASE tag = "RSA" -> "RSA" [] tag = "DSA" -> "DSS" [] tag = "EC" -> "ECDSA"
      [] tag = "OPENSSH" -> "Ed25519"

\* get_args with the private key f, or with none.
GetPrivatekey(f) ==
    /\ pkey = "idle"
    /\ file' = f
    /\ pkey' = IF f.lines = <<>> THEN "none" ELSE "parse"
    /\ UNCHANGED <<pos, offset, names>>

\* parse_name, and the classes that follow from the tag: an OPENSSH key may be
\* of any type.
ParseName ==
    /\ pkey = "parse"
    /\ LET header == HeaderFrom(file.lines, 1)
       IN  IF header = 0
           THEN /\ pkey' = "invalid"
                /\ pos' = Len(file.lines) + 1
                /\ UNCHANGED <<offset, names>>
           ELSE /\ pkey' = "try"
                /\ pos' = header + 1
                /\ offset' = header
                /\ names' = IF TagToName(file.lines[header]) = "Ed25519"
                            THEN <<"Ed25519", "RSA", "ECDSA", "DSS">>
                            ELSE <<TagToName(file.lines[header])>>
    /\ UNCHANGED file

\* from_private_key of a class, on the stream from line n on: the key, or what
\* it raises.
FromPrivateKey(name, n) ==
    LET header == HeaderFrom(file.lines, n)
        type == IF file.lines[header] = "OPENSSH"
                THEN file.type ELSE TagToName(file.lines[header])
        open == \/ file.lines[header] = "OPENSSH"
                \/ type = name /\ name # "Ed25519"
    IN  IF header = 0 \/ ~ open THEN "SSHException"
        ELSE IF file.encrypted /\ file.passphrase = ""
        THEN "PasswordRequired"
        ELSE IF file.encrypted /\ file.passphrase = "wrong"
        THEN "SSHException"
        ELSE IF type = name THEN "key" ELSE "SSHException"

\* Mutant: the stream is not moved back.
SeekNot(n) == pos

\* self.iostr.seek
Seek(n) == n

\* One get_specific_pkey: a missing passphrase ends the search.
GetSpecificPkey ==
    /\ pkey = "try"
    /\ LET result == FromPrivateKey(Head(names), Seek(offset))
       IN  pkey' = CASE result = "key" -> "key"
                     [] result = "PasswordRequired" -> "invalid"
                     [] OTHER -> IF Len(names) = 1 THEN "invalid" ELSE "try"
    /\ names' = Tail(names)
    /\ pos' = Len(file.lines) + 1
    /\ UNCHANGED <<file, offset>>

KeyNext ==
    \/ \E f \in KeyFile \cup {NoFile} : GetPrivatekey(f)
    \/ ParseName \/ GetSpecificPkey

KeySpec == KeyInit /\ [][KeyNext]_stream

-----------------------------------------------------------------------------

\* What a key file must be to be usable: the first header that paramiko knows
\* begins a key that is not encrypted or whose passphrase was given.
Usable(f) ==
    /\ \E j \in 1..Len(f.lines) : f.lines[j] \in Tags
    /\ f.encrypted => f.passphrase = "right"

\* A private key is refused only if it is none, or its passphrase is missing or
\* wrong: a header that comes late, the attempts that used the stream up before
\* and an OPENSSH header that says nothing of the type do not matter.
UsableKeysAreRead ==
    /\ pkey = "key" => Usable(file)
    /\ pkey = "invalid" => ~ Usable(file)

===============================================================================
