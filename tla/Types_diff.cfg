SPECIFICATION Spec
INVARIANT DiffTwoAnswers
