--------------------------- MODULE OfficialPages ---------------------------
(***************************************************************************)
(* From a search result to a verified fact: the candidates and the page    *)
(* reader of search/source-evidence.ts, on safeFetchText of                *)
(* security/safe-fetch.ts, which follows redirects.                        *)
(*                                                                         *)
(* A host is the sequence of its labels from the top down.  A page says    *)
(* some of the Words; where in it they stand is left out.  How an address  *)
(* is told to be public is data: the network answers "public" or not.      *)
(***************************************************************************)
EXTENDS Integers, SequencesExt

CONSTANTS
    Expected, Carriers, Platforms, \* hosts: the caller's, and the two lists
    Citations,    \* what a search may cite: Seq of [host, web]
    Hosts,        \* where a page may send its reader
    MaxRedirects, \* 3
    MaxSize       \* bound of a page, in pieces

VARIABLES
    phase,      \* "searching", "choosing", "resolving", "requesting", "reading"
                \* or "done"
    candidates, \* the results of the search, each with its rank
    candidate,  \* <<>>, or <<the one that is read>>
    current,    \* the host asked now
    redirects,
    response,   \* [status, words, size] of the page that is being read
    late,       \* the deadline has passed, or the caller has given up
    evidence    \* <<>>, or <<[source, host, status, asserted, failure]>>

pageVars ==
    <<phase, candidates, candidate, current, redirects, response, late,
      evidence>>

Words == {"captcha", "login", "fact"}
NoHost == <<>>
NoResponse == [status |-> 0, words |-> {}, size |-> 0]

PagesInit ==
    /\ phase = "searching"
    /\ candidates = {} /\ candidate = <<>>
    /\ current = NoHost
    /\ redirects = 0
    /\ response = NoResponse
    /\ late = FALSE
    /\ evidence = <<>>

-----------------------------------------------------------------------------
(* Candidates *)

Bare(host) ==
    IF host # <<>> /\ Last(host) = "www" THEN Front(host) ELSE host

\* The host, or one below it; "www" counts for nothing.
hostMatches(host, expected) == IsPrefix(Bare(expected), Bare(host))

Among(host, hosts) == \E h \in hosts : hostMatches(host, h)

classifySearchResult(host) ==
    [host |-> host,
     source |-> IF Among(host, Expected) \/ Among(host, Carriers)
                THEN "official"
                ELSE IF Among(host, Platforms) THEN "platform" ELSE "web"]

\* Each address once; what is no web address is passed over.
candidatesFromDeepSeek(citations) ==
    {classifySearchResult(c.host) : c \in {k \in ToSet(citations) : k.web}}

Search ==
    /\ phase = "searching"
    /\ \E citations \in Citations :
         candidates' = candidatesFromDeepSeek(citations)
    /\ phase' = "choosing"
    /\ UNCHANGED <<candidate, current, redirects, response, late, evidence>>

Open ==
    /\ phase = "choosing"
    /\ \E c \in candidates : candidate' = <<c>> /\ current' = c.host
    /\ phase' = "resolving"
    /\ UNCHANGED <<candidates, redirects, response, late, evidence>>

-----------------------------------------------------------------------------
(* What the reader makes of the page *)

Evidence(source, host, status, asserted, failure) ==
    /\ evidence' = <<[source |-> source, host |-> host, status |-> status,
                      asserted |-> asserted, failure |-> failure]>>
    /\ phase' = "done"

Failed(code) ==
    Evidence(candidate[1].source, candidate[1].host,
             IF code = "fact_not_found" THEN "recheck_required" ELSE "failed",
             FALSE, code)

\* Fault: a page keeps the rank of the address that was asked for.
SourceOfAddress == candidate[1].source

\* A page that is served by another host has no rank.
SourceOfPage ==
    IF \/ hostMatches(current, candidate[1].host)
       \/ hostMatches(candidate[1].host, current)
    THEN candidate[1].source ELSE "web"

\* OfficialPageEvidenceReader.read, once the page is there.
Judge ==
    IF response.status \notin 200 .. 299 THEN Failed("unavailable")
    ELSE IF "captcha" \in response.words THEN Failed("captcha")
    ELSE IF "login" \in response.words THEN Failed("login_required")
    ELSE IF "fact" \notin response.words THEN Failed("fact_not_found")
    ELSE Evidence(SourceOfPage, current,
                  IF SourceOfPage = "official" THEN "verified"
                  ELSE "recheck_required",
                  TRUE, "none")

-----------------------------------------------------------------------------
(* safeFetchText *)

\* Every address of the host is public, before each request anew.
ResolveHost ==
    /\ phase = "resolving"
    /\ \/ /\ late
          /\ Failed("unavailable")
       \/ /\ ~late
          /\ \/ current # NoHost /\ phase' = "requesting" /\ UNCHANGED evidence
             \/ Failed("unsafe_url")
             \/ Failed("unavailable")
    /\ UNCHANGED <<candidates, candidate, current, redirects, response, late>>

\* The answer to a request: a redirect, or the head of a page.  NoHost stands
\* for a location that is no web address.
Answer ==
    /\ phase = "requesting" /\ ~late
    /\ \/ /\ redirects < MaxRedirects
          /\ current' \in Hosts \cup {NoHost}
          /\ redirects' = redirects + 1
          /\ phase' = "resolving"
          /\ UNCHANGED <<response, evidence>>
       \/ /\ \E status \in {200, 404} :
               response' = [NoResponse EXCEPT !.status = status]
          /\ phase' = "reading"
          /\ UNCHANGED <<current, redirects, evidence>>
    /\ UNCHANGED <<candidates, candidate, late>>

\* No answer in time, one redirect too many or without a location, another type
\* of content, a page declared too large, a connection that breaks.
Break ==
    /\ phase \in {"requesting", "reading"}
    /\ Failed("unavailable")
    /\ UNCHANGED <<candidates, candidate, current, redirects, response, late>>

\* A piece of the page.
Piece ==
    /\ phase = "reading" /\ ~late
    /\ IF response.size = MaxSize
       THEN Failed("unavailable") /\ UNCHANGED response
       ELSE /\ \E words \in SUBSET Words :
                 response' = [response EXCEPT !.words = @ \cup words,
                                              !.size = @ + 1]
            /\ UNCHANGED <<phase, evidence>>
    /\ UNCHANGED <<candidates, candidate, current, redirects, late>>

End ==
    /\ phase = "reading" /\ ~late
    /\ Judge
    /\ UNCHANGED <<candidates, candidate, current, redirects, response, late>>

TimeIsUp ==
    /\ phase \in {"resolving", "requesting", "reading"} /\ ~late
    /\ late' = TRUE
    /\ UNCHANGED <<phase, candidates, candidate, current, redirects, response,
                   evidence>>

PagesNext ==
    \/ Search \/ Open \/ ResolveHost \/ Answer \/ Break \/ Piece \/ End
    \/ TimeIsUp

PagesSpec == PagesInit /\ [][PagesNext]_pageVars

-----------------------------------------------------------------------------
(* Properties *)

PagesTypeOK ==
    /\ redirects \in 0 .. MaxRedirects
    /\ response.size \in 0 .. MaxSize
    /\ (phase = "done") <=> (evidence # <<>>)

\* What a verified fact and an asserted one rest on.
FactIsOfficial(e) ==
    /\ e.status = "verified" =>
         \E h \in Expected \cup Carriers :
            /\ IsPrefix(Bare(h), Bare(candidate[1].host))
            /\ \/ IsPrefix(Bare(candidate[1].host), Bare(e.host))
               \/ IsPrefix(Bare(e.host), Bare(candidate[1].host))
    /\ e.asserted => /\ ~late /\ e.host = current
                     /\ response.status \in 200 .. 299
                     /\ response.words = {"fact"}
    /\ e.asserted <=> e.failure = "none"

\* A fact is verified only on a page that was read to its end in time, behind
\* neither a captcha nor a login, and served, after whatever redirects, by a host
\* of the family of an expected or a carrier's host; and nothing is asserted from
\* a page that failed.  (safeFetchText, OfficialPageEvidenceReader.read)
VerifiedIsOfficial == \A e \in ToSet(evidence) : FactIsOfficial(e)

-----------------------------------------------------------------------------
(* For the proofs *)

\* The candidate that is read is one, ranked by its own host.
Ranked(c) == c = classifySearchResult(c.host)

PagesInv ==
    /\ phase \in {"searching", "choosing", "resolving", "requesting",
                  "reading", "done"}
    /\ response \in [status : Int, words : SUBSET Words, size : Int]
    /\ \A c \in candidates : Ranked(c)
    /\ phase \notin {"searching", "choosing"} =>
         \E c \in candidates : candidate = <<c>>
    /\ PagesTypeOK
    /\ VerifiedIsOfficial
=============================================================================
