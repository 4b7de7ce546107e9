------------------------------ MODULE MCStudent ------------------------------
(* Five components a student meets for TLC, in one run: an Active Study run *)
(* (ActiveStudy), the offline lease (LeaseClock), the API client            *)
(* (ApiClient), the application update (AppUpdate) and the subscription     *)
(* with its payments (ManualPayments).  They share no state: part says      *)
(* which one a behaviour is of, and the others stay as they begin.          *)
EXTENDS ActiveStudy, LeaseClock, ApiClient, AppUpdate, ManualPayments

VARIABLE part

\* "first": the client of a browser without a CSRF cookie, which makes a call less.
Components == {"study", "lease", "client", "first", "update", "payments"}

StudentInit ==
  /\ part \in Components
  /\ StudyInit /\ LeaseInit /\ ClientInit /\ UpdateInit /\ PaymentsInit
  /\ part # "lease" => wall = 0 /\ issued = 0
  /\ csrfCookie = IF part = "client" THEN 1 ELSE 0

deviceVars == <<studyVars, leaseVars, clientVars, updateVars>>

StudentNext ==
  /\ UNCHANGED part
  /\ \/ /\ part = "study" /\ StudyNext
        /\ UNCHANGED <<leaseVars, clientVars, updateVars, paymentVars>>
     \/ /\ part = "lease" /\ LeaseNext
        /\ UNCHANGED <<studyVars, clientVars, updateVars, paymentVars>>
     \/ /\ part \in {"client", "first"} /\ ClientNext
        /\ part = "first" => calls' < MaxCalls
        /\ UNCHANGED <<studyVars, leaseVars, updateVars, paymentVars>>
     \/ /\ part = "update" /\ UpdateNext
        /\ UNCHANGED <<studyVars, leaseVars, clientVars, paymentVars>>
     \/ /\ part = "payments" /\ PaymentsNext
        /\ UNCHANGED deviceVars

StudentSpec == StudentInit /\ [][StudentNext]_<<part, deviceVars, paymentVars>>

=============================================================================
