SPECIFICATION Spec
INVARIANT CommandTaken
