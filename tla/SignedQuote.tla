------------------------------ MODULE SignedQuote ------------------------------
(***************************************************************************)
(* Signed quotes of ERC-8183 providers: what is asked for and accepted     *)
(* (services/live_agent_market.py, integrations/erc8183_quote.py), and the *)
(* description that goes on chain and is verified again whenever the order *)
(* is read.                                                                *)
(*                                                                         *)
(* An answer is assembled by whoever serves the endpoint: it may repeat an *)
(* earlier quote, mix parts of several and carry hashes computed anew; it  *)
(* cannot carry a signature its provider did not make.  A hash is the      *)
(* value it is computed from, a signature is its signer and the content.   *)
(* A request carries a fresh nonce, so requests are told apart by number.  *)
(* Left out: JSON, addresses and ranges of numbers, all refused when       *)
(* malformed; contract wallets, which answer for their own signatures.     *)
(***************************************************************************)
EXTENDS Integers, FiniteSets

CONSTANTS
  QuoteRequests,   \* numbers of the requests made
  Signers,    \* accounts that sign quotes
  Reviewed,   \* the one the catalog names
  MaxQuotes,  \* bound: quotes signed
  MaxOrdered,  \* bound: orders made
  LastSecond  \* bound: time on chain

ASSUME QuoteConstantsOK ==
  Reviewed \in Signers /\ {MaxQuotes, MaxOrdered, LastSecond} \subseteq Nat

VARIABLES
  second,   \* timestamp of the latest block
  quotes,   \* envelopes as their signers made them
  wallet,   \* agent wallet in the identity registry
  ordered   \* descriptions of orders on chain, with the format they were accepted in

quoteVars == <<second, quotes, wallet, ordered>>

-----------------------------------------------------------------------------

Skew == 1       \* 30 s
LongestLife == 2 \* 86 400 s
Formats == {"safehire-v2", "bnbagent-sdk-v1"}

\* _reviewed_request: the task and the terms of a request; the SDK's format fixes two
\* terms it does not sign.
WantedTerms(r) == [wanted |-> r, evaluator |-> "uma_oov3", more |-> "none"]
Request(r) == [task |-> r, terms |-> WantedTerms(r)]

\* What is signed.  The SDK drops the terms it does not know.
Content(e, format) ==
  [task |-> e.request.task,
   terms |-> IF format = "safehire-v2" THEN e.response.terms
             ELSE [wanted |-> e.response.terms.wanted],
   price |-> e.response.price, negotiated |-> e.response.negotiated, expires |-> e.response.expires,
   domain |-> e.domain]

\* response_hash_content: the SDK sets the time after it computed the hash.
Hashed(response, format) == IF format = "safehire-v2" THEN response ELSE [response EXCEPT !.negotiated = 0]

\* A domain is the chain, the commerce contract and the payment token.
Response(r, price, at, until, accepted) ==
  [accepted |-> accepted, terms |-> WantedTerms(r), price |-> price, negotiated |-> at, expires |-> until,
   completion |-> "soon"]

Rehashed(e, format) ==
  [e EXCEPT !.request_hash = e.request, !.response_hash = Hashed(e.response, format),
            !.negotiation_hash = Content(e, format)]
Envelope(by, r, response, domain, format) ==
  LET content == Content([request |-> Request(r), response |-> response, domain |-> domain], format) IN
  [request |-> Request(r), request_hash |-> Request(r), response |-> response,
   response_hash |-> Hashed(response, format), domain |-> domain, provider |-> by,
   negotiation_hash |-> content, signature |-> [by |-> by, of |-> content]]

QuotesInit ==
  /\ second = 1
  /\ quotes = {}
  /\ wallet = Reviewed
  /\ ordered = {}

-----------------------------------------------------------------------------
(* Providers, carriers and the chain *)

\* A quote is as the catalog wants it, or has another price, or is meant for another
\* chain, contract or token, or lives too long.
SignQuote ==
  /\ Cardinality(quotes) < MaxQuotes
  /\ \E by \in Signers, r \in QuoteRequests, format \in Formats,
        kind \in {"fit", "brief", "dear", "elsewhere", "lasting"} :
       LET until == second + (CASE kind = "brief" -> 1 [] kind = "lasting" -> LongestLife + 1 [] OTHER -> LongestLife)
           price == IF kind = "dear" THEN "other" ELSE "fixed"
           domain == IF kind = "elsewhere" THEN "elsewhere" ELSE "here"
       IN quotes' = quotes \union {Envelope(by, r, Response(r, price, second, until, TRUE), domain, format)}
  /\ UNCHANGED <<second, wallet, ordered>>

\* What may reach the buyer: a quote, a quote with a part of another one or with
\* something else written into it, and each with its hashes computed anew.
Mixed(e, q) ==
  {[e EXCEPT !.request = q.request], [e EXCEPT !.response = q.response], [e EXCEPT !.provider = q.provider],
   [e EXCEPT !.negotiation_hash = q.negotiation_hash, !.signature = q.signature]}
Rewritten(e) ==
  {[e EXCEPT !.response.price = "fixed"], [e EXCEPT !.response.expires = e.response.expires + 1],
   [e EXCEPT !.response.terms.more = "something"], [e EXCEPT !.response.completion = "later"],
   [e EXCEPT !.domain = "here"]}
MixedWithAny(e) == UNION {Mixed(e, q) : q \in quotes}
Changed == quotes \union UNION {Rewritten(e) \union MixedWithAny(e) : e \in quotes}
Answers(format) == Changed \union {Rehashed(e, format) : e \in Changed}

NextBlock ==
  /\ second < LastSecond
  /\ second' = second + 1
  /\ UNCHANGED <<quotes, wallet, ordered>>
NewWallet ==
  /\ wallet' \in Signers
  /\ UNCHANGED <<second, quotes, ordered>>

-----------------------------------------------------------------------------
(* Verification *)

\* _validated_description; only a new order needs a quote that is current.
DescriptionHolds(c, current) ==
  /\ c.domain = "here" /\ c.price = "fixed"
  /\ c.negotiated <= second + Skew
  /\ current => c.expires > second
  /\ c.expires > c.negotiated /\ c.expires - c.negotiated <= LongestLife

\* Mutant: the hash of an answer is taken for what it says.
BindsContentNot(e, format) == TRUE
BindsContent(e, format) == e.negotiation_hash = Content(e, format)
SignedBy(signature, by, c) == signature = [by |-> by, of |-> c]

\* verify_negotiation_envelope.
Accepts(e, r, format) ==
  /\ e.request = Request(r) /\ e.request_hash = e.request
  /\ e.response_hash = Hashed(e.response, format)
  /\ e.response.accepted
  /\ e.response.terms.wanted = r /\ e.response.terms.evaluator = WantedTerms(r).evaluator
  /\ BindsContent(e, format)
  /\ DescriptionHolds(Content(e, format), TRUE)
  /\ SignedBy(e.signature, e.provider, e.negotiation_hash)

\* request_live_agent_quote, and the order made of its answer.  The SDK's signer has to
\* be the wallet the catalog and the registry name.
Order(r, format) ==
  /\ Cardinality(ordered) < MaxOrdered
  /\ \E e \in Answers(format) :
       /\ Accepts(e, r, format)
       /\ format = "bnbagent-sdk-v1" => e.provider = Reviewed /\ wallet = Reviewed
       /\ ordered' = ordered \union
            {[request |-> r, format |-> format, provider |-> e.provider, content |-> Content(e, format),
              signature |-> e.signature, shown |-> e.response]}
  /\ UNCHANGED <<second, quotes, wallet>>

QuotesNext ==
  \/ SignQuote \/ NextBlock \/ NewWallet
  \/ \E r \in QuoteRequests, format \in Formats : Order(r, format)

QuotesSpec == QuotesInit /\ [][QuotesNext]_quoteVars

-----------------------------------------------------------------------------
(* Properties *)

\* An order is what its provider signed, for this request and no other, and what the
\* buyer was shown of price, terms and expiry is what was signed.  (The time of
\* completion is shown and not signed.)
OrderedAsSigned ==
  \A o \in ordered : \E q \in quotes :
    /\ q.provider = o.provider /\ q.request = Request(o.request)
    /\ q.signature = [by |-> o.provider, of |-> o.content]
    /\ o.shown.price = q.response.price /\ o.shown.expires = q.response.expires
    /\ o.shown.terms.wanted = q.response.terms.wanted

\* What was accepted once can be read back for the life of the order: verification at
\* any later time, its quote lapsed or not, holds as it did.
OrderStaysReadable ==
  \A o \in ordered : DescriptionHolds(o.content, FALSE) /\ SignedBy(o.signature, o.provider, o.content)

\* An order is what the provider signed, when it is placed and whenever it is read back.
OrderIsAsSigned == OrderedAsSigned /\ OrderStaysReadable

=============================================================================
