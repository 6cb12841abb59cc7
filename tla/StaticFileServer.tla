--------------------------- MODULE StaticFileServer ---------------------------
(***************************************************************************)
(* agora::net::http::StaticFileServer: the callback of an HttpServer that    *)
(* decodes the path of a request, reads the file it names and fills in the   *)
(* HttpResponse, while other programs may write to the file.                 *)
(*                                                                         *)
(* Characters are their codes.  rootDir_ is left out: names are below it.    *)
(***************************************************************************)
EXTENDS Integers, Sequences, FiniteSetsExt

CONSTANTS
    Chars,           \* characters of the paths clients mean
    Files,           \* names of regular files
    Directories,     \* names of directories
    Types,           \* the table of MimeType, from extensions to types
    Bytes,           \* bytes of files
    MaxPath,         \* bound: characters of a path meant
    MaxSize          \* bound: bytes of a file

ASSUME PathAssumption ==
    /\ Chars \subseteq 1 .. 127 /\ 63 \notin Chars   \* a "?" ends the path
    /\ Files \cap Directories = {}
    /\ MaxPath \in Nat /\ MaxSize \in Nat

VARIABLES
    careful,         \* the client escapes what has to be escaped
    opens,           \* what is there can be opened: there are descriptors and
                     \* permissions
    meant,           \* history: the path the client means
    url,             \* path() of the request it makes of it
    phase,           \* "composing", in serveFile "opened" or "measured", then
                     \* "answered", or "lost" in an exception nobody catches
    file,            \* what is in the file that was opened
    written,         \* history: it was written to meanwhile
    size,            \* size in serveFile
    response         \* the HttpResponse

given == <<careful, opens, meant, url>>
fileVars == <<given, phase, file, written, size, response>>

Space == 32
Percent == 37
Plus == 43
Minus == 45
Dot == 46
Slash == 47
Contents == UNION {[1 .. n -> Bytes] : n \in 0 .. MaxSize}
NoResponse == [status |-> 0, type |-> "", body |-> <<>>]

FileInit ==
    /\ careful \in BOOLEAN /\ opens \in BOOLEAN
    /\ meant = <<>> /\ url = <<>>
    /\ phase = "composing"
    /\ file = <<>> /\ written = FALSE /\ size = 0
    /\ response = NoResponse

-----------------------------------------------------------------------------
(* The client writes a path, with escapes of two hexadecimal digits, of which   *)
(* letters are capital or small.                                             *)

HexDigits(d) == IF d < 10 THEN {48 + d} ELSE {55 + d, 87 + d}
Escapes(c) ==
    {<<Percent, h, l>> : h \in HexDigits(c \div 16), l \in HexDigits(c % 16)}

\* A careless client also sends "%" and "+" as they are.
Writings(c) ==
    Escapes(c)
        \cup (IF c = Space THEN {<<Plus>>} ELSE {})
        \cup {<<x>> : x \in {c} \ (IF careful THEN {Space, Percent, Plus} ELSE {Space})}

Compose(c) ==
    /\ phase = "composing"
    /\ Len(meant) < MaxPath
    /\ meant = <<>> => c = Slash
    /\ meant' = Append(meant, c)
    /\ \E w \in Writings(c) : url' = url \o w
    /\ UNCHANGED <<careful, opens, phase, file, written, size, response>>

-----------------------------------------------------------------------------
(* urlDecode *)

Digit(c) ==
    CASE c \in 48 .. 57  -> c - 48
      [] c \in 65 .. 70  -> c - 55
      [] c \in 97 .. 102 -> c - 87
      [] OTHER           -> -1
IsHex(c) == Digit(c) >= 0

Throws == 256

Blanks == {Space} \cup 9 .. 13

\* std::stoi of two characters in base 16 skips white space, takes a sign and
\* stops at what is no digit; without a digit it throws.  The number is cast to
\* a char.
Stoi(a, b) ==
    CASE IsHex(a) /\ IsHex(b)                    -> 16 * Digit(a) + Digit(b)
      [] IsHex(a) /\ ~IsHex(b)                   -> Digit(a)
      [] a \in Blanks \cup {Plus} /\ IsHex(b)     -> Digit(b)
      [] a = Minus /\ IsHex(b)                   -> (-Digit(b)) % 256
      [] OTHER                                   -> Throws

EscapeBeforeEnd(u, i) == u[i] = Percent /\ i + 2 < Len(u)

\* An escape cut short by the end is taken as it is.
EscapeAt(u, i) == u[i] = Percent /\ i + 2 <= Len(u)

\* What is decoded from each place to the end.
DecodeFrom(u) ==
    LET from[i \in 1 .. Len(u) + 1] ==
          IF i > Len(u) THEN <<>>
          ELSE CASE EscapeAt(u, i) -> <<Stoi(u[i + 1], u[i + 2])>> \o from[i + 3]
                 [] u[i] = Plus    -> <<Space>> \o from[i + 1]
                 [] OTHER          -> <<u[i]>> \o from[i + 1]
    IN  from

UrlDecode(u) == DecodeFrom(u)[1]

-----------------------------------------------------------------------------
(* onRequest *)

Index == <<47, 105, 110, 100, 101, 120, 46, 104, 116, 109, 108>>

FileName(path) == IF path = <<Slash>> THEN Index ELSE path

HasDots(path) == \E i \in 1 .. Len(path) - 1 : path[i] = Dot /\ path[i + 1] = Dot

\* MimeType::getType goes by what follows the last dot.
GetType(name) ==
    LET dots == {i \in DOMAIN name : name[i] = Dot}
        ext  == SubSeq(name, Max(dots) + 1, Len(name))
    IN  IF dots # {} /\ ext \in DOMAIN Types
        THEN Types[ext] ELSE "application/octet-stream"

Answer(status, type, body) ==
    /\ phase' = "answered"
    /\ response' = [status |-> status, type |-> type, body |-> body]
    /\ UNCHANGED <<given, file, written>>

Path == UrlDecode(url)
Name == FileName(Path)

\* The request is there.
Called == phase = "composing" /\ meant # <<>>

Fails ==
    /\ Called
    /\ \E i \in DOMAIN Path : Path[i] = Throws
    /\ phase' = "lost"
    /\ UNCHANGED <<given, file, written, size, response>>

Decoded == Called /\ \A i \in DOMAIN Path : Path[i] # Throws

Refuse ==
    /\ Decoded /\ HasDots(Path)
    /\ Answer(400, "", <<"400 Bad Request">>)
    /\ UNCHANGED size

Opened == opens /\ Name \in Files \cup Directories

\* Whatever open fails for.
NotFound ==
    /\ Decoded /\ ~HasDots(Path)
    /\ ~Opened
    /\ Answer(404, "text/html", <<"<h1>404 Not Found</h1>">>)
    /\ UNCHANGED size

\* A directory opens like a file, but cannot be read.  What tellg gives for it
\* depends on the file system: some size, of as many zeros, or -1 or the like,
\* which is too large for a string.
OpenDirectory ==
    /\ Decoded /\ ~HasDots(Path)
    /\ Opened /\ Name \in Directories
    /\ \/ \E n \in 0 .. MaxSize :
             /\ size' = n
             /\ Answer(200, GetType(Name), [i \in 1 .. n |-> 0])
       \/ phase' = "lost" /\ UNCHANGED <<given, file, written, size, response>>

Open ==
    /\ Decoded /\ ~HasDots(Path)
    /\ Opened /\ Name \in Files
    /\ phase' = "opened"
    /\ file' \in Contents
    /\ UNCHANGED <<given, written, size, response>>

\* Another program writes to the file.
WriteFile ==
    /\ phase \in {"opened", "measured"}
    /\ file' \in Contents \ {file}
    /\ written' = TRUE
    /\ UNCHANGED <<given, phase, size, response>>

Measure ==
    /\ phase = "opened"
    /\ phase' = "measured"
    /\ size' = Len(file)
    /\ UNCHANGED <<given, file, written, response>>

ReadAll(n) == file

ReadBehind(n) == [i \in 1 .. n |-> 0]

\* As many bytes as were measured, zeros where the file has become shorter.
Read(n) == [i \in 1 .. n |-> IF i <= Len(file) THEN file[i] ELSE 0]

ReadFile ==
    /\ phase = "measured"
    /\ Answer(200, GetType(Name), Read(size))
    /\ UNCHANGED size

-----------------------------------------------------------------------------
OnRequest ==
    Fails \/ Refuse \/ NotFound \/ OpenDirectory \/ Open \/ Measure \/ ReadFile

FileNext == (\E c \in Chars : Compose(c)) \/ OnRequest \/ WriteFile

FileSpec == FileInit /\ [][FileNext]_fileVars

-----------------------------------------------------------------------------
(* Properties *)

\* The types of the variables; the body is of the size that was measured.
FileTypeOK ==
    /\ {careful, opens, written} \subseteq BOOLEAN
    /\ meant \in Seq(Chars) /\ url \in Seq(0 .. 255)
    /\ phase \in {"composing", "opened", "measured", "answered", "lost"}
    /\ file \in Contents /\ size \in 0 .. MaxSize
    /\ response.status \in {0, 200, 400, 404}
    /\ response.status = 200 => response.body \in [1 .. size -> Bytes \cup {0}]

\* urlDecode takes back every way of escaping a path, wherever escapes stand in
\* it, at its end and next to each other included.
DecodesWhatIsMeant == careful => UrlDecode(url) = meant

\* A client that escapes what has to be escaped gets the answer to the path it
\* means.  What is there and can be opened is answered as found, of the type of
\* its name: a file whole, unless it is written to meanwhile, a directory as
\* nothing but zeros.  Anything else, a file that cannot be opened included, is
\* "not found".  Only a directory loses the process.
AnswersWhatIsMeant ==
    careful =>
        LET name  == FileName(meant)
            found == opens /\ name \in Files \cup Directories
        IN  /\ phase = "lost" => found /\ name \in Directories
            /\ phase = "answered" =>
                  response.status = IF HasDots(meant) THEN 400
                                    ELSE IF found THEN 200 ELSE 404
            /\ response.status = 200 =>
                  /\ response.type = GetType(name)
                  /\ name \in Files /\ ~written => response.body = file
                  /\ name \in Directories =>
                        \A i \in DOMAIN response.body : response.body[i] = 0

-----------------------------------------------------------------------------
(* The inductive invariant behind them *)

\* Whatever the client writes next, what is there of its path decodes to what it
\* means so far.
DecodesSoFar ==
    careful => \A rest \in Seq(0 .. 255) :
        UrlDecode(url \o rest) = meant \o DecodeFrom(url \o rest)[Len(url) + 1]

\* Until there is an answer the response is as it was made, and the file in hand
\* is the one that was named.
ServesWhatIsNamed ==
    /\ phase # "answered" => response = NoResponse
    /\ phase \in {"composing", "opened"} => size = 0
    /\ phase \in {"opened", "measured"} => opens /\ Name \in Files /\ ~HasDots(Path)
    /\ phase = "measured" /\ ~written => size = Len(file)

FileInvariant ==
    /\ FileTypeOK
    /\ DecodesSoFar
    /\ ServesWhatIsNamed
    /\ AnswersWhatIsMeant

=============================================================================
