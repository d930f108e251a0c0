----------------------------- MODULE MCReadPath -----------------------------
(***************************************************************************)
(* Instances of ReadPath for TLC: three items in two categories, and the   *)
(* stores of a warm user, of a cold one and of a catalogue without         *)
(* embeddings for one item.                                                *)
(***************************************************************************)
EXTENDS ReadPath

CONSTANTS r1, r2

MCWeight == [bm25 |-> 5, vector |-> 5, popularity |-> 3, recency |-> 2, personal |-> 6,
             co_click |-> 4, price_fit |-> 1]

Row(cat, price, age, popularity, vec) ==
    [cat |-> cat, price |-> price, age |-> age, popularity |-> popularity, vec |-> vec]

\* An item from the future, two of one price, one that points away from the
\* query.
Rows == << Row("a", 4, -1, 2, <<5, 0>>), Row("a", 4, 1, 0, <<3, 4>>), Row("b", 8, 2, 1, <<-4, 3>>) >>

Request(kind, query, item, limit, llm) ==
    [kind |-> kind, user |-> "u", query |-> query, item |-> item, limit |-> limit, llm |-> llm]

Search == Request("search", "q", None, 2, FALSE)
SearchLlm == Request("search", "q", None, 3, TRUE)
Recommend == Request("recommend", None, None, 3, FALSE)
RecommendLlm == Request("recommend", None, None, 1, TRUE)
Explain == Request("explain", None, 1, 1, FALSE)

Warm ==
    [kinds |-> {SearchLlm, Recommend, Explain},
     db |-> Items, row |-> Rows,
     text |-> [q |-> <<2, 2, None>>], meaning |-> [q |-> <<3, 4>>],
     coClick |-> {<<1, 2, 2>>, <<2, 3, 1>>},
     recent |-> [u |-> <<1, 0, 2>>], embeddings |-> {}, intents |-> [q |-> "corrupt"],
     top |-> [a |-> <<1, 2, 0>>, b |-> <<0, 0, 1>>, _global |-> <<1, 2, 1>>]]

\* An anonymous search and a user without clicks; every item points away from
\* the query.
ColdUser ==
    [Warm EXCEPT !.kinds = {[Search EXCEPT !.user = None], RecommendLlm},
                 !.recent = [u |-> <<0, 0, 0>>], !.meaning = [q |-> <<-2, -5>>]]

\* The user's items have no embedding; the categories are all there is.
NoVectors ==
    [Warm EXCEPT !.kinds = {Search, Recommend},
                 !.row = [i \in Items |-> [Rows[i] EXCEPT !.vec = IF i = 3 THEN @ ELSE None]],
                 !.embeddings = {"q"}, !.intents = [q |-> "none"],
                 !.text = [q |-> <<None, None, None>>], !.recent = [u |-> <<1, 2, 0>>],
                 !.top = [a |-> <<0, 0, 0>>, b |-> <<0, 0, 1>>, _global |-> <<1, 1, 0>>]]

MCWorlds == {Warm, ColdUser, NoVectors}

Rank(item, rank) == [item |-> item, rank |-> rank]

\* An answer with two items of one rank, one that repeats and invents items,
\* one that leaves most out.
MCRerankAnswers ==
    { <<Rank(3, 2), Rank(1, 1), Rank(2, 1)>>, <<Rank(2, 1), Rank(2, 2), Rank(9, 1)>>, <<Rank(3, 1)>> }

=============================================================================
