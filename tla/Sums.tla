-------------------------------- MODULE Sums --------------------------------
\* Sums of lists of numbers: what a row adds up, and what a linear constraint does.
EXTENDS Integers, Sequences

Total(numbers) ==
    LET upTo[i \in 0 .. Len(numbers)] == IF i = 0 THEN 0 ELSE upTo[i - 1] + numbers[i]
    IN  upTo[Len(numbers)]

=============================================================================
