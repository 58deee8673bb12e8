------------------------------ MODULE Reading -------------------------------
(***************************************************************************)
(* The claim passes of Claims over real documents: a source may serve any  *)
(* small page, which is parsed as Document says, read as Readers and       *)
(* Wording say, and shown to reviewers as Triage says. What is said of a   *)
(* document that was parsed, or of a claim that was stored, is said of     *)
(* every page and wording it may come from.                                *)
(***************************************************************************)
EXTENDS Claims, Readers, Wording, Triage

(* A document has the words of its page (parse_html_document): none is lost  *)
(* for standing bare in a container, none is repeated for standing in a      *)
(* block inside a block, none is code and no two are welded. It takes the    *)
(* removal, the walk, the blocks and the table together to keep it.          *)
NothingLostNorTwice == \A e \in parsed : EveryWordOnce /\ WordsStayApart

(* The heading path of a block (heading_path_for), which says what a number  *)
(* in it is about, is the headings the page puts it under.                   *)
HeadingsGovern == \A e \in parsed : BlocksAreUnderTheirHeadings

(* Every claim points at the wording it quotes (Locator, resolve), whatever  *)
(* page, extractor or model it comes from and whatever the model answers;    *)
(* and two claims of one extractor never share a pointer, or the unique      *)
(* fingerprint would drop one.                                               *)
ClaimsAreLocated == \A r \in rows : RulesPoint /\ ModelsPoint

(* What a page offers for moving about is not read as what it says           *)
(* (admission.extract, extract_program).                                     *)
FurnitureIsNotContent == \A r \in rows : ContentOnly /\ LabelsAreNoRequirements

(* What an extractor reads in a text is what the text says: scores           *)
(* (language._attribute), fees (tuition._classify) and dates                 *)
(* (deadline._time_parts).                                                   *)
ReadAsWritten == \A r \in rows : ScoresAsWritten /\ FeesAsWritten /\ DatesAsWritten

(* What reviewers are shown of the stored candidates misleads them in none   *)
(* of these: a conflict between pages that name their periods in one term is *)
(* one (group_candidates, context_conflicts), no field of a page is left out *)
(* of the queue (queue_for), and an amount is shown as the money it is       *)
(* (classify_financial_context).                                             *)
ShownAsItIs ==
    \A r \in rows : RivalsAnswerOneQuestion /\ NothingIsPassedOver /\ AmountsByTheirLabels
=============================================================================
