--------------------------------- MODULE MCSend ---------------------------------
(***************************************************************************)
(* Instances of Send for TLC. In the first job ann asks bob, bob answers,  *)
(* and a message of ann to herself echoes the ref; in the second, two      *)
(* messages of one agent to one recipient, and one refused for its size.   *)
(***************************************************************************)
EXTENDS Send

CONSTANTS ann, bob, s1, s2, s3, k1

Plain(f, t) == [from |-> f, to |-> t, ask |-> FALSE, answers |-> Nobody,
                big |-> FALSE, forged |-> FALSE, tries |-> 1]

Asked == [s \in Sender |->
            CASE s = s1 -> [Plain(ann, bob) EXCEPT !.ask = TRUE]
              [] s = s2 -> [Plain(bob, ann) EXCEPT !.answers = s1]
              [] OTHER -> [Plain(ann, ann) EXCEPT !.answers = s1, !.ask = TRUE]]
Doubled == [s \in Sender |->
              CASE s = s1 -> [Plain(ann, bob) EXCEPT !.tries = 2]
                [] s = s2 -> [Plain(ann, bob) EXCEPT !.forged = TRUE]
                [] OTHER -> [Plain(ann, bob) EXCEPT !.big = TRUE]]
MCJobs == {Asked, Doubled}
=============================================================================
