---------------------------- MODULE HttpMessages ----------------------------
(***************************************************************************)
(* The text of HTTP messages: HttpTypes.hpp writes a request (the client   *)
(* side) and reads it back (the server side), and writes a response that   *)
(* may be sent in several segments.  A text is a sequence of words; the    *)
(* separators inside a line are left out, the end of a line is a word of   *)
(* its own, and every word counts as one unit of length.  A word may       *)
(* contain another one (a language tag another tag, a path the name of a   *)
(* method): the searches of the code find it there too.                    *)
(***************************************************************************)
EXTENDS Integers, Sequences, FiniteSets, SequencesExt

CONSTANTS Requests,   \* the requests a client may send
          Files,      \* the files a server may send, each [name: its extensions, body: the bodies of its segments]
          Tags,       \* the language tags of the tables
          Inside,     \* the pairs <<word, part>> in which part occurs inside word
          Numeral,    \* the number a decimal word stands for
          Splits      \* where a text may be cut into buffers: "never", "lines" or "words"

VARIABLES sent,      \* the request the client converts
          text,      \* what of it has not reached the server yet
          request,   \* the request object of the server
          file,      \* the file the server answers with
          response,  \* the response object of the server
          segments,  \* the bodies of the segments still to be sent
          wire,      \* what the client has received
          pc         \* "write", "read", "answer", "refused"

vars == <<sent, text, request, file, response, segments, wire, pc>>

Eol == "\r\n"
Npos == 0
Unknown == "Unknown"

EmptyRequest ==
  [method |-> Unknown, uri |-> <<>>, version |-> Unknown, type |-> Unknown, connection |-> Unknown,
   accept |-> <<>>, encoding |-> <<>>, language |-> {}, length |-> 0]

ClearResponse == [version |-> Unknown, code |-> Unknown, type |-> Unknown, encoding |-> <<>>, language |-> <<>>, length |-> 0]
-----------------------------------------------------------------------------
(* Writing.                                                                *)

Methods == {"GET", "POST", "PUT", "DELETE", "HEAD", "CONNECT", "OPTIONS", "TRACE"}
Versions == {"HTTP/1.0", "HTTP/1.1", "HTTP/2.0", "HTTP/3.0"}
WrittenTypes == {"text/html", "application/json", "application/xml", "image/png", "image/jpeg",
                 "image/gif", "image/svg+xml", "image/tiff", "text/css", "text/javascript"}
Encodings == <<"gzip", "deflate", "br", "identity">>

ToStringMethod(method) == IF method \in Methods THEN <<method>> ELSE <<>>
ToStringVersion(version) == IF version \in Versions THEN <<version>> ELSE <<>>
ToStringStatusCode(code) == IF code = Unknown THEN <<>> ELSE <<code>>
ToStringContentType(type) == IF type \in WrittenTypes THEN <<"Content-Type:", type>> ELSE <<>>
ToStringContentLength(length) == <<"Content-Length:", CHOOSE word \in DOMAIN Numeral : Numeral[word] = length>>

(* The values are written in the order of the code's table, whatever the   *)
(* order of the list; with nothing known to write, the last two characters *)
(* taken off are those of the header's name.                               *)
ToStringEncoding(list) ==
  LET known == SelectSeq(Encodings, LAMBDA word : Contains(list, word))
  IN  CASE list = <<>> -> <<>>
        [] list # <<>> /\ known = <<>> -> <<"Content-Encoding">>
        [] OTHER -> <<"Content-Encoding:">> \o known

ToStringContentLanguage(list) ==
  IF list = <<>> THEN <<>> ELSE <<"Content-Language:">> \o SetToSeq(ToSet(list))

Line(words) == IF words = <<>> THEN <<>> ELSE Append(words, Eol)

FromHttpRequest(r) ==
  LET accept == FlattenSeq([i \in DOMAIN r.accept |-> <<"Accept:">> \o ToStringContentType(r.accept[i])])
      custom == FlattenSeq([i \in DOMAIN r.custom |-> Line(r.custom[i])])
  IN  IF ToStringMethod(r.method) = <<>> \/ r.uri = <<>> \/ ToStringVersion(r.version) = <<>> THEN <<>>
      ELSE ToStringMethod(r.method) \o r.uri \o Line(ToStringVersion(r.version))
             \o <<"Host:", r.host, Eol, "User-Agent:", Eol>> \o Line(accept) \o custom
             \o <<"Connection:", "close", Eol, Eol>>
             \o (IF r.method = "POST" THEN r.body ELSE <<>>)

(* A response whose status line is cleared is written as its body alone.   *)
ToHttpResponse(r, body) ==
  IF ToStringVersion(r.version) = <<>> THEN body
  ELSE ToStringVersion(r.version) \o Line(ToStringStatusCode(r.code)) \o Line(ToStringEncoding(r.encoding))
         \o Line(ToStringContentType(r.type)) \o Line(ToStringContentLength(r.length))
         \o Line(ToStringContentLanguage(r.language)) \o <<"Connection:", "close", Eol, Eol>> \o body

(* The type of a file by its name: the last of its extensions that is      *)
(* known.                                                                  *)
TypeOfExtension ==
  [e \in {"html", "json", "css", "js", "png", "jpg", "gif", "svg"} |->
     CASE e = "html" -> "text/html" [] e = "json" -> "application/json" [] e = "css" -> "text/css"
       [] e = "js" -> "text/javascript" [] e = "png" -> "image/png" [] e = "jpg" -> "image/jpeg"
       [] e = "gif" -> "image/gif" [] e = "svg" -> "image/svg+xml"]

DetermineContentType(extensions) ==
  LET known == {i \in DOMAIN extensions : extensions[i] \in DOMAIN TypeOfExtension}
  IN  IF known = {} THEN Unknown ELSE TypeOfExtension[extensions[Max(known)]]
-----------------------------------------------------------------------------
(* Reading.                                                                *)

Holds(word, part) == word = part \/ <<word, part>> \in Inside

Find(words, part, from) ==
  LET found == {i \in from..Len(words) : Holds(words[i], part)}
  IN  IF found = {} THEN Npos ELSE Min(found)

(* The value is looked for from the header's name on, in as many           *)
(* characters as the END OF ITS LINE is away from the start of the text:   *)
(* the second argument of substr is a length, and the lines that follow    *)
(* are searched too.                                                       *)
HeaderWindow(words, name) ==
  LET start == Find(words, name, 1)
      end == IF start = Npos THEN Npos ELSE Find(words, Eol, start)
  IN  IF start = Npos \/ end = Npos THEN <<>>
      ELSE SubSeq(words, start, Min({Len(words), start + end - 2}))

FindHeaderValue(words, name, value) == Find(HeaderWindow(words, name), value, 1) # Npos

FirstOf(names, Is(_), old) ==
  LET known == SelectSeq(names, Is) IN IF known = <<>> THEN old ELSE Head(known)

MethodWords == <<"GET", "POST", "PUT", "CONNECT", "DELETE">>
VersionWords == <<"HTTP/1.0", "HTTP/1.1", "HTTP/2.0", "HTTP/3.0">>
TypeWords == <<"text/html", "application/json", "application/xml", "text/css", "text/javascript",
               "image/png", "image/jpeg", "image/svg+xml", "image/tiff">>

MethodOf(words, old) == FirstOf(MethodWords, LAMBDA name : Find(words, name, 1) # Npos, old)
VersionOf(words, old) == FirstOf(VersionWords, LAMBDA name : Find(words, name, 1) # Npos, old)


(* The words between the method's name and the version's, wherever the two *)
(* were found.                                                             *)
UriOf(words, old) ==
  LET method == MethodOf(words, Unknown)
      version == VersionOf(words, Unknown)
      start == Find(words, method, 1)
      end == Find(words, version, 1)
  IN  IF method = Unknown \/ version = Unknown \/ end = 1 THEN old ELSE SubSeq(words, start + 1, end - 1)

TypeOf(words, old) == FirstOf(TypeWords, LAMBDA type : FindHeaderValue(words, "Content-Type:", type), old)
ConnectionOf(words, old) ==
  FirstOf(<<"keep-alive", "close">>, LAMBDA value : FindHeaderValue(words, "Connection:", value), old)

(* Whatever type is accepted, text/html is what the list gets.             *)
AcceptOf(words) ==
  [i \in 1..Cardinality({type \in {"text/html", "application/json", "application/xml"} :
                           FindHeaderValue(words, "Accept:", type)}) |-> "text/html"]

EncodingOf(words) == SelectSeq(Encodings, LAMBDA word : FindHeaderValue(words, "Content-Encoding:", word))

LanguageOf(words) == {tag \in Tags : FindHeaderValue(words, "Content-Language:", tag)}

LengthOf(words, old) ==
  LET at == Find(words, "Content-Length:", 1)
  IN  IF at = Npos \/ at = Len(words) THEN old ELSE Numeral[words[at + 1]]

(* What is found is set, what is not found keeps its value, and the lists  *)
(* grow: the function is called for every buffer of a request.             *)
ToHttpRequest(words, r) ==
  [method |-> MethodOf(words, r.method), uri |-> UriOf(words, r.uri), version |-> VersionOf(words, r.version),
   type |-> TypeOf(words, r.type), connection |-> ConnectionOf(words, r.connection),
   accept |-> r.accept \o AcceptOf(words), encoding |-> r.encoding \o EncodingOf(words),
   language |-> r.language \cup LanguageOf(words), length |-> LengthOf(words, r.length)]
-----------------------------------------------------------------------------
Init ==
  /\ sent \in Requests /\ file \in Files
  /\ text = <<>> /\ wire = <<>> /\ segments = <<>>
  /\ request = EmptyRequest /\ response = ClearResponse
  /\ pc = "write"

WriteRequest ==
  /\ pc = "write"
  /\ text' = FromHttpRequest(sent)
  /\ pc' = IF text' = <<>> THEN "refused" ELSE "read"
  /\ UNCHANGED <<sent, request, file, response, segments, wire>>

(* The ends of the buffers the server may receive.                         *)
Cuts ==
  {Len(text)} \cup
  CASE Splits = "words" -> DOMAIN text
    [] Splits = "lines" -> {i \in DOMAIN text : text[i] = Eol}
    [] OTHER -> {}

(* One buffer is received and converted; nothing of a header cut by its    *)
(* end is kept for the next one (the fragment is put in a local variable). *)
ReadRequest ==
  /\ pc = "read"
  /\ \E cut \in Cuts :
       /\ request' = ToHttpRequest(SubSeq(text, 1, cut), request)
       /\ text' = SubSeq(text, cut + 1, Len(text))
  /\ pc' = IF text' = <<>> THEN "answer" ELSE "read"
  /\ response' = IF text' = <<>>
                  THEN [version |-> "HTTP/1.1", code |-> "200 OK", type |-> DetermineContentType(file.name),
                        encoding |-> <<>>, language |-> <<>>,
                        length |-> Len(FlattenSeq(file.body))]
                  ELSE response
  /\ segments' = IF text' = <<>> THEN file.body ELSE segments
  /\ UNCHANGED <<sent, file, wire>>

(* A segment is sent and the header cleared, so that the next segment is   *)
(* its body alone.                                                         *)
\* Mutant: the version stays in the status line.
ClearResponseKeepsVersion(r) == [ClearResponse EXCEPT !.version = r.version]

ClearResponseHeader(r) == ClearResponse

SendSegment ==
  /\ pc = "answer" /\ segments # <<>>
  /\ wire' = wire \o ToHttpResponse(response, Head(segments))
  /\ response' = ClearResponseHeader(response)
  /\ segments' = Tail(segments)
  /\ UNCHANGED <<sent, text, request, file, pc>>

Next == WriteRequest \/ ReadRequest \/ SendSegment

Spec == Init /\ [][Next]_vars
-----------------------------------------------------------------------------
(* The answer has been read by the server as a whole.                      *)
Read == pc = "answer"

(* No word of the request but its own request line holds the name of a     *)
(* method or of a version.                                                 *)
Plain(r) ==
  LET words == FromHttpRequest(r)
      names == ToSet(MethodWords) \cup ToSet(VersionWords)
  IN  \A i \in DOMAIN words : \A name \in names :
        Holds(words[i], name) => i = 1 \/ i = Len(r.uri) + 2

(* A request of one of the five methods the server knows arrives with its  *)
(* method, its path and its version, however its headers and its body are  *)
(* cut into buffers at the ends of lines.                                  *)
RequestLineArrives ==
  Read /\ sent.method \in ToSet(MethodWords) /\ Plain(sent) =>
    request.method = sent.method /\ request.uri = sent.uri /\ request.version = sent.version

(* The same with any path, custom header and body: violated, the names are *)
(* looked for in the whole buffer and GET before the others.               *)
EveryRequestLineArrives ==
  Read /\ sent.method \in ToSet(MethodWords) =>
    request.method = sent.method /\ request.uri = sent.uri /\ request.version = sent.version

(* What a client receives in several segments is one response: one header, *)
(* then the bodies in order, as many words as the header announces.        *)
ResponseIsOne ==
  pc = "answer" /\ segments = <<>> =>
    LET end == CHOOSE i \in DOMAIN wire : wire[i] = Eol /\ wire[i + 1] = Eol /\ \A j \in 1..(i - 1) : wire[j] # Eol \/ wire[j + 1] # Eol
        body == SubSeq(wire, end + 2, Len(wire))
    IN  /\ body = FlattenSeq(file.body)
        /\ \E i \in 1..end : wire[i] = "Content-Length:" /\ Numeral[wire[i + 1]] = Len(body)

(* The languages read are those a Content-Language header names: violated, *)
(* a tag is found inside a longer one and in the lines after the header's. *)
LanguagesAreNamed ==
  Read => \A tag \in request.language : \E i \in DOMAIN sent.custom : tag \in ToSet(sent.custom[i]) /\ sent.custom[i][1] = "Content-Language:"

(* The type read is the value of a Content-Type header: violated, a client *)
(* writes each accepted type with the name of that header before it.       *)
TypeIsOwn ==
  Read /\ request.type # Unknown => \E i \in DOMAIN sent.custom : sent.custom[i] = <<"Content-Type:", request.type>>
=============================================================================
