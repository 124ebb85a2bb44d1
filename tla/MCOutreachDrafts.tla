---------------------------- MODULE MCOutreachDrafts ----------------------------
(* Research with one observed and one inferred signal, messages of two     *)
(* channels: sound, with an invented fact, with two questions, a subject   *)
(* where none belongs, a subject that is still a template.                 *)
EXTENDS OutreachDrafts

Researched ==
    <<[classification |-> "OBSERVED", quotes |-> <<"fee 1200">>],
      [classification |-> "INFERRED", quotes |-> <<"slow">>]>>
Sound == [length |-> "fits", placeholder |-> FALSE, quotes |-> {"fee 1200"},
          numbers |-> {1200}, named |-> TRUE, spam |-> FALSE, questions |-> 1]
TraitsIn(body) ==
    CASE body = "sound" -> Sound
      [] body = "invents" -> [Sound EXCEPT !.quotes = {"slow"}, !.numbers = {}]
      [] body = "asks twice" -> [Sound EXCEPT !.questions = 2]
NumbersOf(quote) == IF quote = "fee 1200" THEN {1200} ELSE {}
ByMail(channel) == channel = "EMAIL"
MessagesWritten ==
    {[channel |-> "EMAIL", subject |-> "fits", body |-> b] : b \in {"sound", "invents", "asks twice"}}
      \cup {[channel |-> "LINKEDIN", subject |-> s, body |-> "sound"] : s \in {None, "long"}}
      \cup {[channel |-> "EMAIL", subject |-> "placeholder", body |-> "sound"]}
\* Two e-mails, of which one invents evidence.
MailsWritten == {[channel |-> "EMAIL", subject |-> "fits", body |-> b] : b \in {"sound", "invents"}}
SubjectsWritten == {"fits", None}
=============================================================================
