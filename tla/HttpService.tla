----------------------------- MODULE HttpService -----------------------------
(***************************************************************************)
(* HanderRequest of code_2026_05_23/code2/HttpServer.hpp: one request, one *)
(* response, in a process that serves nobody else (ForkServer makes it).   *)
(* The pages lie in a directory that somebody may change at any time, also *)
(* between the system calls that look at them.                             *)
(*                                                                         *)
(* A path leads to Absent, Directory, Hidden (it cannot be opened) or to a *)
(* file, which is its length.                                              *)
(***************************************************************************)
EXTENDS Naturals

CONSTANTS
    Lengths,        \* the lengths a file may have
    DirectorySize,  \* st_size of a directory
    Absent, Directory, Hidden,
    MaxChanges      \* bound on the changes of pages

ASSUME HttpAssumption ==
    /\ Lengths \subseteq Nat /\ DirectorySize \in Nat /\ MaxChanges \in Nat
    /\ Absent \notin Nat /\ Directory \notin Nat /\ Hidden \notin Nat

VARIABLES
    page,       \* what each path leads to
    line,       \* what the client asks for, "none" before it does
    stage,      \* where HanderRequest is
    target,     \* _targetfile
    text,       \* _text: the path it was read from and its length
    code,       \* _code, 0 for its indeterminate first value
    headers,    \* _headers
    changes,    \* changes of pages since the request was received
    outdated    \* history: the file in text has changed since it was read

httpVars == <<page, line, stage, target, text, code, headers, changes, outdated>>

\* "www" is webroot itself.
Paths == {"index", "404", "image", "www"}
Contents == Lengths \cup {Absent, Directory, Hidden}

\* Request lines: "/", "/?args", the path of a page, and a line whose end has
\* not arrived yet: recv() returns what there is, and there is no other recv().
Lines == {"root", "rootArgs", "incomplete", "index", "404", "image"}

HttpInit ==
    /\ page \in [Paths -> Contents]
    /\ page["www"] \in {Absent, Directory}
    /\ line = "none"
    /\ stage = "recv"
    /\ target = "www"
    /\ text = [of |-> "nothing", bytes |-> 0]
    /\ code = 0
    /\ headers = <<>>
    /\ changes = 0
    /\ outdated = FALSE

----------------------------------------------------------------------------
(* What the handler is made of.                                             *)

\* ReadOneLine returns nothing unless the line has an end.
FirstLine(l) == IF l = "incomplete" THEN "" ELSE l

\* Deserialize: "/" is the home page.  "/?args" is not "/", and when the
\* arguments are cut off only webroot is left; so it is for no line at all.
Uri(l) ==
    CASE FirstLine(l) = "root" -> "index"
      [] FirstLine(l) \in {"rootArgs", ""} -> "www"
      [] OTHER -> l

\* ReadFileContent: a directory can be opened, but nothing can be read from it.
Opens(p) == page[p] \notin {Absent, Hidden}
Content(p) == [of |-> p, bytes |-> IF page[p] \in Lengths THEN page[p] ELSE 0]

\* FileSize: when stat() fails the result is whatever was on the stack; it
\* does not fail for a file that cannot be opened.
FileSize(p) ==
    CASE page[p] = Directory -> {DirectorySize}
      [] page[p] \in Lengths -> {page[p]}
      [] OTHER -> Lengths

SetCode(c) == code' = IF c \in {200, 404} THEN c ELSE code

\* The first value of a header stays.
SetHeader(h, key, value) ==
    [k \in DOMAIN h \cup {key} |-> IF k \in DOMAIN h THEN h[k] ELSE value]

\* Uri2Suffix, "" for a path without a known suffix.
Uri2Suffix(p) ==
    CASE p \in {"index", "404"} -> "text/html"
      [] p = "image" -> "image/jpeg"
      [] OTHER -> ""

----------------------------------------------------------------------------
Ask ==
    /\ line = "none"
    /\ line' \in Lines \cup {"gone"}
    /\ UNCHANGED <<page, stage, target, text, code, headers, changes, outdated>>

\* Mutant: the handler waits until the whole line has arrived.
ReceiveWhole ==
    /\ stage = "recv"
    /\ line \in Lines \ {"incomplete"}
    /\ target' = Uri(line)
    /\ stage' = "read"
    /\ UNCHANGED <<page, line, text, code, headers, changes, outdated>>

\* Recv(), Deserialize(), SetTargetFile().
Receive ==
    /\ stage = "recv"
    /\ line \in Lines
    /\ target' = Uri(line)
    /\ stage' = "read"
    /\ UNCHANGED <<page, line, text, code, headers, changes, outdated>>

\* Recv() returned 0 or -1: nothing is sent.
NoRequest ==
    /\ stage = "recv"
    /\ line = "gone"
    /\ stage' = "done"
    /\ UNCHANGED <<page, line, target, text, code, headers, changes, outdated>>

Found ==
    /\ stage = "read"
    /\ Opens(target)
    /\ text' = Content(target)
    /\ SetCode(200)
    /\ stage' = "stat"
    /\ UNCHANGED <<page, line, target, headers, changes, outdated>>

NotFound ==
    /\ stage = "read"
    /\ ~Opens(target)
    /\ SetCode(404)
    /\ target' = "404"
    /\ stage' = "read404"
    /\ UNCHANGED <<page, line, text, headers, changes, outdated>>

\* Mutant: the page for errors is read, but _targetfile is the client's again.
ReadErrorPageRestores ==
    /\ stage = "read404"
    /\ text' = IF Opens(target) THEN Content(target) ELSE text
    /\ target' = Uri(line)
    /\ stage' = "stat"
    /\ UNCHANGED <<page, line, code, headers, changes, outdated>>

\* Whether the page for errors can be read is not looked at.
ReadErrorPage ==
    /\ stage = "read404"
    /\ text' = IF Opens(target) THEN Content(target) ELSE text
    /\ stage' = "stat"
    /\ UNCHANGED <<page, line, target, code, headers, changes, outdated>>

\* Mutant: the size is that of the path the client asked for.
MeasureRequested ==
    /\ stage = "stat"
    /\ \E size \in FileSize(Uri(line)) :
          headers' = SetHeader(SetHeader(headers, "Content-Length", size),
                               "Content-Type", Uri2Suffix(target))
    /\ stage' = "send"
    /\ UNCHANGED <<page, line, target, text, code, changes, outdated>>

\* FileSize() and both headers; no type is sent for a suffix not known.
Measure ==
    /\ stage = "stat"
    /\ \E size \in FileSize(target) :
          LET h == SetHeader(headers, "Content-Length", size)
              type == Uri2Suffix(target)
          IN  headers' = IF type # "" THEN SetHeader(h, "Content-Type", type) ELSE h
    /\ stage' = "send"
    /\ UNCHANGED <<page, line, target, text, code, changes, outdated>>

\* Serialize() and Send(): the response is code, headers and text.
Respond ==
    /\ stage = "send"
    /\ stage' = "done"
    /\ UNCHANGED <<page, line, target, text, code, headers, changes, outdated>>

\* Somebody else replaces, removes or adds a page.
Change ==
    /\ stage \in {"read", "read404", "stat"}
    /\ changes < MaxChanges
    /\ \E p \in Paths \ {"www"} : \E k \in Contents \ {page[p]} :
          /\ page' = [page EXCEPT ![p] = k]
          /\ outdated' = (outdated \/ p = text.of)
    /\ changes' = changes + 1
    /\ UNCHANGED <<line, stage, target, text, code, headers>>

Handle ==
    \/ Receive \/ NoRequest \/ Found \/ NotFound
    \/ ReadErrorPage \/ Measure \/ Respond

HttpNext == Handle \/ Ask \/ Change

\* The process runs.
HttpFairness == WF_httpVars(Handle)

----------------------------------------------------------------------------
(* Correctness                                                             *)

\* The variables have their types.
HttpTypeOK ==
    /\ page \in [Paths -> Contents]
    /\ line \in Lines \cup {"none", "gone"}
    /\ stage \in {"recv", "read", "read404", "stat", "send", "done"}
    /\ target \in Paths
    /\ text \in [of : Paths \cup {"nothing"}, bytes : Lengths \cup {0}]
    /\ code \in {0, 200, 404}
    /\ DOMAIN headers \subseteq {"Content-Length", "Content-Type"}
    /\ changes \in 0 .. MaxChanges
    /\ outdated \in BOOLEAN

Answered == stage = "done" /\ line \in Lines

\* A response is about one page, even if pages come and go between open(), the
\* second open() and stat(): 200 is sent with the page that was asked for, 404
\* with the page for errors or, if that cannot be opened either, with nothing;
\* the type is that of the page sent.
OnePage ==
    /\ HttpTypeOK
    /\ Answered =>
          /\ code # 0
          /\ code = 200 => text.of = Uri(line)
          /\ code = 404 => text.of \in {"404", "nothing"}
          /\ LET type == Uri2Suffix(IF code = 200 THEN text.of ELSE "404")
             IN  IF type = "" THEN "Content-Type" \notin DOMAIN headers
                 ELSE "Content-Type" \in DOMAIN headers /\ headers["Content-Type"] = type

\* The file is read first and measured later, by its path.  When what is sent,
\* the page asked for or the one for errors, is a file, then Content-Length is
\* the length the file has when the response is sent, whatever was changed
\* before; it is the length of the body unless that very file was changed after
\* it was read.  Without a change, 404 is sent for exactly the pages that cannot
\* be opened.  (A directory and a page for errors that is missing are sent with
\* another length.)
HonestLength ==
    Answered =>
        /\ text.of # "nothing" /\ page[text.of] \in Lengths =>
              /\ headers["Content-Length"] = page[text.of]
              /\ ~outdated => headers["Content-Length"] = text.bytes
        /\ changes = 0 => (code = 404 <=> ~Opens(Uri(line)))

\* Every request is answered: neither a line that is not complete nor a page
\* for errors that is missing keeps the process from sending its response.
RequestAnswered == (line \in Lines) ~> (stage = "done")

----------------------------------------------------------------------------
(* The inductive invariant                                                  *)

\* What to send is known, and how long it is.
Decided == stage \in {"stat", "send", "done"} /\ line \in Lines
Measured == stage \in {"send", "done"} /\ line \in Lines

\* What has been found out about the response before each stage ...
PageInv ==
    /\ stage = "recv" => changes = 0
    /\ line = "none" => stage = "recv"
    /\ stage \in {"read", "read404", "stat", "send"} => line \in Lines
    /\ stage \in {"recv", "read", "read404"} => text.of = "nothing"
    /\ stage \in {"recv", "read"} => code = 0
    /\ stage \in {"recv", "read", "read404", "stat"} => headers = <<>>
    /\ stage = "read" => target = Uri(line)
    /\ stage = "read404" => code = 404 /\ target = "404"
    /\ Decided =>
          \/ code = 200 /\ target = Uri(line) /\ text.of = target
          \/ code = 404 /\ target = "404" /\ text.of \in {target, "nothing"}
    /\ Measured =>
          /\ "Content-Type" \in DOMAIN headers <=> Uri2Suffix(target) # ""
          /\ Uri2Suffix(target) # "" => headers["Content-Type"] = Uri2Suffix(target)

\* ... and what of it a change of the pages leaves true.
FreshInv ==
    /\ changes = 0 /\ (stage = "read404" \/ Decided) => (code = 404 <=> ~Opens(Uri(line)))
    /\ text.of # "nothing" /\ ~outdated => text = Content(text.of)
    /\ Measured /\ page[target] \in Lengths => headers["Content-Length"] = page[target]

HttpIInv == HttpTypeOK /\ PageInv /\ FreshInv
=============================================================================
