-------------------------- MODULE FileDataTarget --------------------------
(***************************************************************************)
(* FileDataTarget (shared/dbgutil/filedatatarget.h): the static-image     *)
(* ICorDebugDataTarget that answers memory reads from a module file.  Its  *)
(* constructor opens the file (m_file, NULL when _wfopen fails); each      *)
(* ReadVirtual seeks to the address as a file offset and reads with        *)
(* fread.  Its reference counting is modelled in ComRefCount; this module  *)
(* is about what a read returns.                                           *)
(*                                                                         *)
(* The image is the file's content, a sequence of bytes; a read's buffer   *)
(* is the caller's, and what fread does not write keeps its old content,   *)
(* Stale.                                                                  *)
(***************************************************************************)
EXTENDS Naturals, Sequences, FiniteSetsExt

CONSTANTS
    Bytes,       \* byte values
    MaxImage,    \* longest image file considered
    Addrs,       \* CORDB_ADDRESS values the caller reads at
    Requests,    \* request sizes
    Stale        \* a buffer byte fread did not write

VARIABLES
    image,       \* the module file's content
    m_file,      \* "open" or "none" (NULL)
    reply        \* the caller's last request and what it got back

vars == <<image, m_file, reply>>

Images == UNION {[1 .. k -> Bytes] : k \in 0 .. MaxImage}

(* fread(pBuffer, 1, request, m_file) after the seek to pos: byte by byte *)
(* until request bytes are read or the end of the file is reached.         *)
RECURSIVE Fread(_, _, _)
Fread(img, pos, n) ==
    IF n = 0 \/ pos >= Len(img) THEN <<>>
    ELSE <<img[pos + 1]>> \o Fread(img, pos + 1, n - 1)

(* The caller's buffer of n bytes after bs was written to its front.       *)
Filled(bs, n) == [i \in 1 .. n |-> IF i <= Len(bs) THEN bs[i] ELSE Stale]

NoReply == [op |-> "none", addr |-> 0, req |-> 0, counted |-> FALSE, hr |-> "S_OK",
            done |-> 0, buf |-> <<>>]

(* ReadVirtual with fread's size and count swapped: it returns the number  *)
(* of whole request-sized items read, 0 or 1.                              *)
ReadVirtualItemCount(img, f, a, n, counted) ==
    LET bs == Fread(img, a, n) IN
    IF f = "none" THEN [hr |-> "E_FAIL", done |-> 0, buf |-> Filled(<<>>, n)]
    ELSE [hr |-> "S_OK", buf |-> Filled(bs, n),
          done |-> IF counted THEN (IF n > 0 /\ Len(bs) = n THEN 1 ELSE 0)
                   ELSE 0]

(* FileDataTarget::ReadVirtual: E_FAIL when m_file is NULL; otherwise the  *)
(* seek (to an offset within or past the end, which succeeds) and the      *)
(* read, whose count goes to *pcbRead when the caller passed one (a count  *)
(* the caller did not ask for is left at 0); S_OK whatever the count.      *)
ReadVirtual(img, f, a, n, counted) ==
    LET bs == Fread(img, a, n) IN
    IF f = "none" THEN [hr |-> "E_FAIL", done |-> 0, buf |-> Filled(<<>>, n)]
    ELSE [hr |-> "S_OK", buf |-> Filled(bs, n),
          done |-> IF counted THEN Len(bs) ELSE 0]

(* The caller reads n bytes at a, with or without a pcbRead.               *)
RequestRead(a, n, counted) ==
    /\ LET r == ReadVirtual(image, m_file, a, n, counted) IN
       reply' = [op |-> "read", addr |-> a, req |-> n, counted |-> counted,
                 hr |-> r.hr, done |-> r.done, buf |-> r.buf]
    /\ UNCHANGED <<image, m_file>>

(* GetPlatform and GetThreadContext: E_NOTIMPL.                            *)
RequestNotImplemented(op) ==
    /\ reply' = [NoReply EXCEPT !.op = op, !.hr = "E_NOTIMPL"]
    /\ UNCHANGED <<image, m_file>>

(* The constructor: _wfopen of the module path succeeds or returns NULL.   *)
Init ==
    /\ image \in Images
    /\ m_file \in {"open", "none"}
    /\ reply = NoReply

Next ==
    \/ \E a \in Addrs, n \in Requests, counted \in BOOLEAN : RequestRead(a, n, counted)
    \/ \E op \in {"platform", "threadcontext"} : RequestNotImplemented(op)

Spec == Init /\ [][Next]_vars

-----------------------------------------------------------------------------
(* The bytes of the image from offset a, at most n of them (spec 4.4: the  *)
(* static-image variant answers by seek-and-read).                         *)
ImageSlice(img, a, n) == SubSeq(img, a + 1, Min({a + n, Len(img)}))

TypeOK ==
    /\ image \in Images /\ m_file \in {"open", "none"}
    /\ reply.op \in {"none", "read", "platform", "threadcontext"}
    /\ reply.hr \in {"S_OK", "E_FAIL", "E_NOTIMPL"}
    /\ reply.counted \in BOOLEAN /\ reply.done \in Nat
    /\ reply.buf \in Seq(Bytes \cup {Stale})

(* A successful read tells the caller how much of the image it got: the    *)
(* count it reports is the length of the image's bytes at that offset (up  *)
(* to the request, zero past the end), and the front of the buffer holds   *)
(* exactly those bytes.  The caller's own address arithmetic relies on it  *)
(* for reads that run into the end of the file.                            *)
ReadAnswersImage ==
    reply.op = "read" /\ reply.hr = "S_OK" /\ reply.counted =>
        LET want == ImageSlice(image, reply.addr, reply.req) IN
        /\ reply.done = Len(want)
        /\ SubSeq(reply.buf, 1, reply.done) = want
=============================================================================
